---- MODULE Spec2Model ----
(***************************************************************************)
(* A model of kopyt, a Kotlin lexer and parser written in Python.          *)
(*                                                                         *)
(*   - kopyt/iterator.py : PeekableIterator, the buffered token cursor     *)
(*     with nestable save/restore markers;                                 *)
(*   - kopyt/parser.py   : the matching primitives of Parser (_accept,     *)
(*     _try_accept, _would_accept, _would_accept_either, _try_parse);      *)
(*   - kopyt/lexer.py    : the mode stack of Lexer.__iter__.               *)
(*                                                                         *)
(* Three specifications share the definitions:                             *)
(*   SpecIter   drives a PeekableIterator over range(1, n+1) the way       *)
(*              tests/test_iterator.py does;                               *)
(*   SpecParser drives the primitives of Parser over a token stream;       *)
(*   SpecLexer  runs Lexer.__iter__ over a string of characters.           *)
(***************************************************************************)
EXTENDS Integers, Sequences, FiniteSets, TLC

VARIABLES
    tokens,     \* the PeekableIterator object (Parser.tokens)
    frames,     \* the open `with` scopes of the running code, innermost last
    last,       \* the operation that ran last, its argument and its outcome
    data,       \* Lexer.data
    i,          \* Lexer.i
    stack_mode, \* the local stack_mode of Lexer.__iter__
    yielded,    \* the tokens the Lexer generator has yielded so far
    lexer_pc    \* where the Lexer generator stands

vars == <<tokens, frames, last, data, i, stack_mode, yielded, lexer_pc>>

lexer_vars == <<data, i, stack_mode, yielded, lexer_pc>>

----
(* Bounds *)

\* longest source of a PeekableIterator in SpecIter
MaxSrc == 3
\* how many times next() may run past the end of the source inside scopes
MaxOver == 2
\* deepest nesting of `with` scopes
MaxDepth == 2
\* largest offset handed to peek()
MaxPeek == 2

\* longest token stream handed to a Parser
MaxTok == 3
\* longest sequence of acceptables handed to _accept
MaxSeq == 3
\* longest alternative handed to _would_accept_either
MaxAlt == 1
\* longest token stream a speculative parse runs on
MaxStream == 2
\* deepest nesting of _try_parse and simulate() scopes
MaxNest == 2
\* most parse functions handed to _try_parse
MaxFuncs == 2
\* longest source handed to a Lexer
MaxData == 4
\* longest sequence of acceptables a speculative parse function hands on
MaxBody == 1

\* the most binary operators in a source of SpecExpr
MaxOps == 2

\* the most characters in a source of SpecRound
MaxText == 5

\* the most characters in a source of SpecLiteral
MaxLiteral == 4

\* the most parts in a source of SpecString
MaxString == 7

\* the most parts in a source of SpecChar
MaxChar == 5

\* longest source of a Lexer that is iterated twice
MaxTwice == 3

\* how many next() results are compared when two cursor states are compared
Max(a, b) == IF a >= b THEN a ELSE b
Horizon == Max(Max(MaxSrc, MaxTok), MaxStream) + MaxOver + MaxSeq + 2

----
(* Python values *)

\* Python's None, the default of the iterator in tests/test_iterator.py
None == 0

Reverse(s) == [k \in 1..Len(s) |-> s[Len(s) + 1 - k]]

\* reversed(d)
reversed(d) == Reverse(d)

\* deque.extendleft(xs): appends the elements of xs to the left one by one
RECURSIVE extendleft(_, _)
extendleft(d, xs) ==
    IF xs = <<>> THEN d ELSE extendleft(<<Head(xs)>> \o d, Tail(xs))

\* deque.extend(xs)
extend(d, xs) == d \o xs

----
(* The source iterator: iter(iterable).  `items` are the elements it has   *)
(* still to yield; `fail` says that the generator raises LexerException    *)
(* once the items are exhausted (a Lexer over a source with a lexical      *)
(* error); a generator that has raised is finished and raises              *)
(* StopIteration from then on.                                             *)

iter_next(it) ==
    IF it.items # <<>>
    THEN [exc |-> "none", ret |-> Head(it.items),
          it |-> [it EXCEPT !.items = Tail(@)]]
    ELSE IF it.fail
    THEN [exc |-> "LexerException", ret |-> None,
          it |-> [it EXCEPT !.fail = FALSE]]
    ELSE [exc |-> "StopIteration", ret |-> None, it |-> it]

----
(* PeekableIterator.  `self` is a record with the fields of the object:    *)
(* iterator, default, cache, markers, value.  Every method returns the     *)
(* object after the call, the value returned and the exception raised.     *)

PeekableIterator(iterable, default, fail) ==
    [iterator |-> [items |-> iterable, fail |-> fail],
     default  |-> default,
     cache    |-> <<>>,
     markers  |-> <<>>,
     value    |-> None]

Append_to_last_marker(markers, v) ==
    [markers EXCEPT ![Len(markers)] = Append(@, v)]

\* r is the outcome of next(self._iterator), used when the cache is empty
__next__(self) ==
    LET fromCache == self.cache # <<>>
        got(r) ==
            LET exc == IF fromCache \/ r.exc # "LexerException"
                       THEN "none" ELSE "LexerException"
                v == IF fromCache THEN Head(self.cache)
                     ELSE IF r.exc = "none" THEN r.ret ELSE self.default
            IN  IF exc # "none"
                THEN [self |-> [self EXCEPT !.iterator = r.it],
                      ret |-> None, exc |-> exc]
                ELSE [self |-> [self EXCEPT
                          !.iterator = IF fromCache THEN @ ELSE r.it,
                          !.cache = IF fromCache THEN Tail(@) ELSE @,
                          !.value = v,
                          !.markers = IF self.markers # <<>>
                                      THEN Append_to_last_marker(@, v)
                                      ELSE @],
                      ret |-> v, exc |-> "none"]
    IN  got(iter_next(self.iterator))

\* the loop `for _ in range(n): self._cache.append(next(self._iterator))`
RECURSIVE peek_fill(_, _)
peek_fill(self, n) ==
    IF n <= 0 THEN [self |-> self, exc |-> "none"]
    ELSE LET appended(r) ==
                 IF r.exc # "none"
                 THEN [self |-> [self EXCEPT !.iterator = r.it],
                       exc |-> r.exc]
                 ELSE peek_fill([self EXCEPT !.iterator = r.it,
                                             !.cache = Append(@, r.ret)],
                                n - 1)
         IN  appended(iter_next(self.iterator))

peek_count(length, k) == k - length + 1

\* a peek that, on StopIteration, forgets the elements it has just read
peek_lossy(self, k) ==
    LET length == Len(self.cache)
        filled(f) ==
            IF f.exc = "StopIteration"
            THEN [self |-> [self EXCEPT !.iterator = f.self.iterator],
                  ret |-> self.default, exc |-> "none"]
            ELSE IF f.exc = "LexerException"
            THEN [self |-> f.self, ret |-> None, exc |-> "LexerException"]
            ELSE [self |-> [f.self EXCEPT !.value = f.self.cache[k + 1]],
                  ret |-> f.self.cache[k + 1], exc |-> "none"]
    IN  filled(IF length <= k THEN peek_fill(self, peek_count(length, k))
               ELSE [self |-> self, exc |-> "none"])

peek(self, k) ==
    LET length == Len(self.cache)
        filled(f) ==
            IF f.exc = "StopIteration"
            THEN [self |-> f.self, ret |-> self.default, exc |-> "none"]
            ELSE IF f.exc = "LexerException"
            THEN [self |-> f.self, ret |-> None, exc |-> "LexerException"]
            ELSE [self |-> [f.self EXCEPT !.value = f.self.cache[k + 1]],
                  ret |-> f.self.cache[k + 1], exc |-> "none"]
    IN  filled(IF length <= k THEN peek_fill(self, peek_count(length, k))
               ELSE [self |-> self, exc |-> "none"])

_push_marker(self) == [self EXCEPT !.markers = Append(@, <<>>)]

\* a reset that puts the marker's elements behind the cache
reset_cache_behind(cache, marker) == extend(cache, marker)

\* the cache after a reset: the marker's elements go back in front of it
reset_cache(cache, marker) ==
    IF Len(cache) > Len(marker)
    THEN extendleft(cache, reversed(marker))
    ELSE extend(marker, cache)

\* a normal exit that drops the marker instead of handing it over
merge_marker_dropped(rest, marker) == rest

\* the enclosing markers after a marker that is not reset is popped
merge_marker(rest, marker) ==
    IF rest # <<>>
    THEN [rest EXCEPT ![Len(rest)] = extend(@, marker)]
    ELSE rest

_pop_marker(self, reset) ==
    LET marker == self.markers[Len(self.markers)]
        rest == SubSeq(self.markers, 1, Len(self.markers) - 1)
    IN  IF marker = <<>> THEN [self EXCEPT !.markers = rest]
        ELSE IF reset
        THEN [self EXCEPT !.markers = rest,
                          !.cache = reset_cache(self.cache, marker)]
        ELSE [self EXCEPT !.markers = merge_marker(rest, marker)]

__enter__(self) == _push_marker(self)

\* an __exit__ that never resets
exit_reset_never(raised) == FALSE

\* an __exit__ that resets whatever the outcome of the body
exit_reset_always(raised) == TRUE

\* the test `if exc_type or exc_val or exc_tb` of __exit__
exit_reset(raised) == raised

__exit__(self, raised) == _pop_marker(self, exit_reset(raised))

\* simulate() up to its yield
simulate_enter(self) == _push_marker(self)

\* a simulate() without `finally`: the reset runs only when the body raises
simulate_reset_on_raise(how) == how = "raise"

\* the `finally` of simulate(): runs however the body ended
simulate_reset(how) == TRUE

simulate_exit(self, how) == _pop_marker(self, simulate_reset(how))

----
(* What a cursor state has in store: the values the next Horizon calls of  *)
(* next() return when no scope is open.                                    *)

RECURSIVE next_values(_, _)
next_values(self, n) ==
    IF n = 0 THEN <<>>
    ELSE LET read(r) ==
                 <<[exc |-> r.exc,
                    ret |-> IF r.exc = "none" THEN r.ret ELSE self.default]>>
                     \o next_values(r.self, n - 1)
         IN  read(__next__([self EXCEPT !.markers = <<>>]))

Upcoming(self) == next_values(self, Horizon)

\* the values peek(0), ..., peek(MaxPeek) return, each asked of `self`
Peeks(self) ==
    LET read(r) ==
            [exc |-> r.exc,
             ret |-> IF r.exc = "none" THEN r.ret ELSE self.default]
    IN  [k \in 0..MaxPeek |-> read(peek(self, k))]

----
(* The scopes the running code has open.  A frame remembers the kind of    *)
(* scope, what the cursor had in store at its entry, and how many elements inner scopes      *)
(* that ended normally have handed over to it.                             *)

\* what a caller can see of a cursor: what next() and peek() return
Seen(self) == [upcoming |-> Upcoming(self), peeks |-> Peeks(self)]

Frame(kind, self) ==
    [kind |-> kind, entry |-> Seen(self), handed |-> 0, idx |-> 0, left |-> 0]

NoFrame ==
    [kind |-> "none", entry |-> <<>>, handed |-> 0, idx |-> 0, left |-> 0]

Top(s) == s[Len(s)]
Front(s) == SubSeq(s, 1, Len(s) - 1)

\* the frames after the innermost one is closed; on a normal exit the
\* enclosing frame is handed the n elements of the closed marker
PopFrame(fs, n) ==
    LET rest == Front(fs)
    IN  IF rest = <<>> \/ n = 0 THEN rest
        ELSE [rest EXCEPT ![Len(rest)].handed = @ + n]

RECURSIVE CountOf(_, _)
CountOf(s, v) ==
    IF s = <<>> THEN 0
    ELSE (IF Head(s) = v THEN 1 ELSE 0) + CountOf(Tail(s), v)

RECURSIVE Flatten(_)
Flatten(ms) == IF ms = <<>> THEN <<>> ELSE Head(ms) \o Flatten(Tail(ms))

\* how many default values next() has recorded running past the end
Overruns(self) == CountOf(Flatten(self.markers) \o self.cache, self.default)

AtEnd(self) == self.cache = <<>> /\ self.iterator.items = <<>>

Done(op, arg, r, frame) ==
    [op |-> op, arg |-> arg, ret |-> r.ret, exc |-> r.exc,
     before |-> tokens, frame |-> frame, note |-> ""]

----
(* SpecIter: the calls of tests/test_iterator.py on one PeekableIterator   *)

IdleLexer ==
    /\ data = <<>>
    /\ i = 0
    /\ stack_mode = <<>>
    /\ yielded = <<>>
    /\ lexer_pc = "idle"

InitIter ==
    /\ \E n \in 0..MaxSrc :
          tokens = PeekableIterator([k \in 1..n |-> k], None, FALSE)
    /\ frames = <<>>
    /\ last = [op |-> "init", arg |-> 0, ret |-> None, exc |-> "none",
               before |-> <<>>, frame |-> NoFrame, note |-> ""]
    /\ IdleLexer

\* next(iterator)
CallNext ==
    /\ (AtEnd(tokens) /\ tokens.markers # <<>>) => Overruns(tokens) < MaxOver
    /\ \E r \in {__next__(tokens)} :
          /\ tokens' = r.self
          /\ last' = Done("__next__", 0, r, NoFrame)
    /\ UNCHANGED <<frames, lexer_vars>>

\* iterator.peek(k)
CallPeek(k) ==
    /\ \E r \in {peek(tokens, k)} :
          /\ tokens' = r.self
          /\ last' = Done("peek", k, r, NoFrame)
    /\ UNCHANGED <<frames, lexer_vars>>

\* `with iterator:` is entered
WithEnter ==
    /\ Len(frames) < MaxDepth
    /\ tokens' = __enter__(tokens)
    /\ frames' = Append(frames, Frame("with", tokens))
    /\ last' = Done("__enter__", 0, [ret |-> None, exc |-> "none"], NoFrame)
    /\ UNCHANGED lexer_vars

\* the body of `with iterator:` ends, normally or by an exception
WithExit(raised) ==
    /\ frames # <<>>
    /\ Top(frames).kind = "with"
    /\ tokens' = __exit__(tokens, raised)
    /\ frames' = PopFrame(frames, IF raised THEN 0 ELSE Len(Top(tokens.markers)))
    /\ last' = Done("__exit__", raised,
                    [ret |-> None, exc |-> "none"], Top(frames))
    /\ UNCHANGED lexer_vars

\* `with iterator.simulate():` is entered
SimulateEnter ==
    /\ Len(frames) < MaxDepth
    /\ tokens' = simulate_enter(tokens)
    /\ frames' = Append(frames, Frame("simulate", tokens))
    /\ last' = Done("simulate", 0, [ret |-> None, exc |-> "none"], NoFrame)
    /\ UNCHANGED lexer_vars

\* the body of `with iterator.simulate():` ends: it falls off its end,
\* returns, or raises
SimulateExit(how) ==
    /\ frames # <<>>
    /\ Top(frames).kind = "simulate"
    /\ tokens' = simulate_exit(tokens, how)
    /\ frames' = PopFrame(frames, IF simulate_reset(how) THEN 0
                                  ELSE Len(Top(tokens.markers)))
    /\ last' = Done("simulate_exit", how,
                    [ret |-> None, exc |-> "none"], Top(frames))
    /\ UNCHANGED lexer_vars

NextIter ==
    \/ CallNext
    \/ \E k \in 0..MaxPeek : CallPeek(k)
    \/ WithEnter
    \/ \E raised \in BOOLEAN : WithExit(raised)
    \/ SimulateEnter
    \/ \E how \in {"normal", "return", "raise"} : SimulateExit(how)

SpecIter == InitIter /\ [][NextIter]_vars

----
(* Claims about PeekableIterator *)


PoppedMarker == Top(last.before.markers)

\* C1: when a `with iterator:` scope exits with an exception, next() and
\* peek() return after the scope what they would have returned had the scope
\* never been entered, also when next() ran past the end inside the scope.
C1_ErrorExitRestores ==
    (last.op = "__exit__" /\ last.arg = TRUE)
        => Seen(tokens) = last.frame.entry

C1_Witness ==
    /\ last.op = "__exit__"
    /\ last.arg = TRUE
    /\ Len(PoppedMarker) >= 2
    /\ PoppedMarker[1] # None
    /\ PoppedMarker[Len(PoppedMarker)] = None

\* C2: a `with iterator.simulate():` scope restores the cursor on exit
\* however its body ended: next() and peek() return what they would have
\* returned before the scope was entered.
C2_SimulateRestores ==
    (last.op = "simulate_exit") => Seen(tokens) = last.frame.entry

C2_Witness ==
    /\ last.op = "simulate_exit"
    /\ last.arg \in {"normal", "return"}
    /\ Len(PoppedMarker) >= 2
    /\ Upcoming(tokens) # Upcoming(last.before)

\* the cursor after the open scopes j, j+1, ... all exit by error
RECURSIVE ResetFrom(_, _)
ResetFrom(self, j) ==
    IF Len(self.markers) < j THEN self
    ELSE ResetFrom(_pop_marker(self, TRUE), j)

\* C3: nested scopes compose.  An inner scope that exits normally hands its
\* elements to the enclosing marker, so that every open scope, were it (and
\* the scopes inside it) to exit by error, would get back the cursor of its
\* entry; an inner scope that exits by error gives back its own elements
\* only and leaves the enclosing marker as it was.
C3_NestedScopesCompose ==
    /\ \A j \in 1..Len(frames) :
          Upcoming(ResetFrom(tokens, j)) = frames[j].entry.upcoming
    /\ (last.op = "__exit__" /\ last.arg = FALSE /\ frames # <<>>)
          => /\ Top(tokens.markers) =
                   Top(Front(last.before.markers)) \o PoppedMarker
             /\ Upcoming(tokens) = Upcoming(last.before)
    /\ (last.op = "__exit__" /\ last.arg = TRUE /\ frames # <<>>)
          => /\ tokens.markers = Front(last.before.markers)
             /\ Upcoming(tokens) = last.frame.entry.upcoming

C3_Witness ==
    /\ last.op = "__exit__"
    /\ last.arg = TRUE
    /\ frames # <<>>
    /\ PoppedMarker # <<>>
    /\ Top(frames).handed > 0
    /\ Len(Top(tokens.markers)) > Top(frames).handed

\* C4: when a `with iterator:` scope exits normally, what was consumed inside
\* it stays consumed: next() goes on after the last element consumed inside.
C4_NormalExitKeeps ==
    (last.op = "__exit__" /\ last.arg = FALSE)
        => /\ Upcoming(tokens) = Upcoming(last.before)
           /\ tokens.cache = last.before.cache
           /\ tokens.iterator = last.before.iterator

C4_Witness ==
    /\ last.op = "__exit__"
    /\ last.arg = FALSE
    /\ PoppedMarker # <<>>
    /\ PoppedMarker[1] # None
    /\ Upcoming(tokens) # last.frame.entry.upcoming

\* C5: peek(k) returns what the (k+1)-th following next() returns, the
\* default when fewer than k+1 elements remain, and a peek never changes
\* what the following next() calls return.
C5_PeekIsLookahead ==
    (last.op = "peek")
        => /\ last.ret = Upcoming(tokens)[last.arg + 1].ret
           /\ Upcoming(tokens) = Upcoming(last.before)
           /\ (Len(last.before.cache) + Len(last.before.iterator.items)
                   <= last.arg) => last.ret = tokens.default

C5_Witness ==
    /\ last.op = "peek"
    /\ last.arg = MaxPeek
    /\ last.before.cache = <<>>
    /\ Len(last.before.iterator.items) = last.arg
    /\ last.ret = tokens.default

----
(* Tokens (kopyt/lexer.py) and acceptables (kopyt/parser.py)               *)

Token(cls, value) == [cls |-> cls, value |-> value]

\* Lexer.eof, the default of Parser.tokens
EOF == Token("EOF", "")

\* Python's None where an Optional[Token] is returned
NoToken == Token("NoneType", "")

\* the classes a token of class cls is an instance of
Bases(cls) ==
    IF cls = "NewLine" THEN {"NewLine", "OptionalNewLines", "Token"}
    ELSE IF cls = "NoneType" THEN {"NoneType"}
    ELSE {cls, "Token"}

isinstance(tok, cls) == cls \in Bases(tok.cls)

\* an acceptable is a string or a class
Str(v) == [type |-> "str", v |-> v]
Class(v) == [type |-> "type", v |-> v]

\* OptionalNewLines, imported by the parser as NL
NL == Class("OptionalNewLines")

\* Token.__ne__
__ne__(tok, o) ==
    IF o.type = "str" THEN tok.value # o.v
    ELSE ~isinstance(tok, o.v)

----
(* Parser._accept and the primitives built on it.  Each returns the        *)
(* cursor after the call, the value returned and the exception raised.     *)

\* an NL marker that takes one NewLine only
skip_new_lines_not(self, offset) ==
    [self |-> self, offset |-> offset, exc |-> "none"]

\* the loop `while isinstance(self.tokens.peek(offset), NewLine)`
RECURSIVE skip_new_lines(_, _)
skip_new_lines(self, offset) ==
    LET peeked(p) ==
            IF p.exc # "none"
            THEN [self |-> p.self, offset |-> offset, exc |-> p.exc]
            ELSE IF isinstance(p.ret, "NewLine")
            THEN skip_new_lines(p.self, offset + 1)
            ELSE [self |-> p.self, offset |-> offset, exc |-> "none"]
    IN  peeked(peek(self, offset))

\* Parser._raise with verbose=True: peeks for the message, then raises
_raise(self) ==
    LET peeked(p) ==
            [self |-> p.self,
             exc |-> IF p.exc # "none" THEN p.exc ELSE "ParserException"]
    IN  peeked(peek(self, 0))

\* the loop `for acceptable in acceptables` of _accept; `status` is
\* "matched", "mismatch" (return None), or the exception raised
RECURSIVE accept_loop(_, _, _, _, _)
accept_loop(self, acceptables, offset, found_token, raise_error) ==
    IF acceptables = <<>>
    THEN [self |-> self, offset |-> offset, found_token |-> found_token,
          status |-> "matched"]
    ELSE
    LET acceptable == Head(acceptables)
        optional == acceptable = NL
        raised(e) ==
            [self |-> e.self, offset |-> offset,
             found_token |-> found_token, status |-> e.exc]
        skipped(w) ==
            IF w.exc # "none"
            THEN [self |-> w.self, offset |-> w.offset,
                  found_token |-> found_token, status |-> w.exc]
            ELSE accept_loop(w.self, Tail(acceptables), w.offset,
                             found_token, raise_error)
        peeked(p) ==
            LET current_token == p.ret
            IN  IF p.exc # "none"
                THEN [self |-> p.self, offset |-> offset,
                      found_token |-> found_token, status |-> p.exc]
                ELSE IF optional /\ ~isinstance(current_token, "NewLine")
                THEN accept_loop(p.self, Tail(acceptables), offset,
                                 found_token, raise_error)
                ELSE IF __ne__(current_token, acceptable)
                THEN IF raise_error
                     THEN raised(_raise(p.self))
                     ELSE [self |-> p.self, offset |-> offset,
                           found_token |-> found_token,
                           status |-> "mismatch"]
                ELSE IF optional
                THEN skipped(skip_new_lines(p.self, offset + 1))
                ELSE accept_loop(p.self, Tail(acceptables), offset + 1,
                                 IF found_token = NoToken THEN current_token
                                 ELSE found_token,
                                 raise_error)
    IN  peeked(peek(self, offset))

\* the loop `for _ in range(offset): next(self.tokens)` of _accept
RECURSIVE consume_tokens(_, _)
consume_tokens(self, n) ==
    IF n = 0 THEN [self |-> self, exc |-> "none"]
    ELSE LET consumed(r) ==
                 IF r.exc # "none" THEN [self |-> r.self, exc |-> r.exc]
                 ELSE consume_tokens(r.self, n - 1)
         IN  consumed(__next__(self))

_accept(self, acceptables, consume, raise_error) ==
    LET consumed(m, c) ==
            [self |-> c.self,
             ret |-> IF c.exc = "none" THEN m.found_token ELSE NoToken,
             exc |-> c.exc]
        matched(m) ==
            IF m.status = "mismatch"
            THEN [self |-> m.self, ret |-> NoToken, exc |-> "none"]
            ELSE IF m.status # "matched"
            THEN [self |-> m.self, ret |-> NoToken, exc |-> m.status]
            ELSE IF ~consume
            THEN [self |-> m.self, ret |-> m.found_token, exc |-> "none"]
            ELSE consumed(m, consume_tokens(m.self, m.offset))
    IN  matched(accept_loop(self, acceptables, 0, NoToken, raise_error))

\* `self._accept(...) is not None`
is_not_None(r) ==
    [self |-> r.self, exc |-> r.exc,
     ret |-> r.exc = "none" /\ r.ret # NoToken]

_try_accept(self, acceptables) ==
    is_not_None(_accept(self, acceptables, TRUE, FALSE))

\* a _would_accept that lets _accept consume
would_accept_consuming == TRUE

\* the `consume` flag _would_accept hands to _accept
would_accept_consume == FALSE

_would_accept(self, acceptables) ==
    is_not_None(_accept(self, acceptables, would_accept_consume, FALSE))

\* an alternative of _would_accept_either is a bare acceptable or a sequence
\* of acceptables; both end in a call of _would_accept
RECURSIVE _would_accept_either(_, _)
_would_accept_either(self, alternatives) ==
    IF alternatives = <<>>
    THEN [self |-> self, ret |-> FALSE, exc |-> "none"]
    ELSE LET tried(r) ==
                 IF r.exc # "none" \/ r.ret THEN r
                 ELSE _would_accept_either(r.self, Tail(alternatives))
         IN  tried(_would_accept(self, Head(alternatives)))

----
(* SpecAccept: the primitives of Parser called on a token stream, the way  *)
(* tests/test_parser.py calls them.                                        *)

\* the tokens of the streams: `a`, `+` and a line break
TokenAlphabet ==
    {Token("Identifier", "a"), Token("Operator", "+"), Token("NewLine", "\n")}

SeqsUpTo(S, n) == UNION {[1..k -> S] : k \in 0..n}

\* the acceptables handed to the primitives
Acceptables == {Str("a"), Class("NewLine"), Class("EOF"), NL}

AcceptableSeqs(n) == SeqsUpTo(Acceptables, n) \ {<<>>}

\* Parser(code) for a source free of lexical errors
InitAccept ==
    /\ \E src \in SeqsUpTo(TokenAlphabet, MaxTok) :
          tokens = PeekableIterator(src, EOF, FALSE)
    /\ frames = <<>>
    /\ last = [op |-> "init", arg |-> <<>>, ret |-> NoToken, exc |-> "none",
               before |-> <<>>, frame |-> NoFrame, note |-> ""]
    /\ IdleLexer

Idle ==
    [op |-> "idle", arg |-> <<>>, ret |-> NoToken, exc |-> "none",
     before |-> <<>>, frame |-> NoFrame, note |-> ""]

\* the caller is between two calls of the parser
Ready == last.op \in {"init", "idle"}

\* the caller has looked at the outcome of a call and goes on
GoOn ==
    /\ ~Ready
    /\ last' = Idle
    /\ UNCHANGED <<tokens, frames, lexer_vars>>

\* an `except KopytException` in the place of `except ParserException`
try_parse_catches_kopyt(exc) ==
    exc \in {"ParserException", "LexerException"}

\* the `except ParserException` of _try_parse
try_parse_catches(exc) == exc = "ParserException"

\* An exception raised in the running parse function leaves the open scopes
\* innermost first.  simulate() resets and lets it pass; the `with` of
\* _try_parse resets, and its `except` clause, when it catches, goes on with
\* the next parse function or returns None.
RECURSIVE Unwind(_, _, _)
Unwind(self, fs, exc) ==
    IF exc = "none" \/ fs = <<>>
    THEN [self |-> self, frames |-> fs, exc |-> exc, note |-> "",
          frame |-> NoFrame]
    ELSE
    LET f == Top(fs)
        exited(s1) ==
            IF ~try_parse_catches(exc)
            THEN Unwind(s1, Front(fs), exc)
            ELSE IF f.left > 0
            THEN [self |-> __enter__(s1),
                  frames |-> [fs EXCEPT ![Len(fs)] =
                                 [f EXCEPT !.left = @ - 1, !.idx = @ + 1,
                                           !.handed = 0]],
                  exc |-> "none", note |-> "next_func", frame |-> f]
            ELSE [self |-> s1, frames |-> Front(fs), exc |-> "none",
                  note |-> "returned_None", frame |-> f]
    IN  IF f.kind = "simulate"
        THEN Unwind(simulate_exit(self, "raise"), Front(fs), exc)
        ELSE exited(__exit__(self, TRUE))

\* the outcome of a call made by the running code: the call's own outcome
\* unless it raised, and then what the open scopes make of the exception
Outcome(op, arg, r) ==
    \E u \in {Unwind(r.self, frames, r.exc)} :
        /\ Overruns(u.self) <= MaxOver
        /\ tokens' = u.self
        /\ frames' = u.frames
        /\ last' = [op |-> op, arg |-> arg, ret |-> r.ret, exc |-> u.exc,
                    before |-> tokens, frame |-> u.frame, note |-> u.note]
        /\ UNCHANGED lexer_vars

\* parser._accept(*acceptables)
Accept(acceptables) ==
    /\ Ready
    /\ Outcome("_accept", acceptables, _accept(tokens, acceptables, TRUE, TRUE))

\* parser._try_accept(*acceptables)
TryAccept(acceptables) ==
    /\ Ready
    /\ Outcome("_try_accept", acceptables, _try_accept(tokens, acceptables))

\* parser._would_accept(*acceptables)
WouldAccept(acceptables) ==
    /\ Ready
    /\ Outcome("_would_accept", acceptables,
               _would_accept(tokens, acceptables))

\* parser._would_accept_either(*alternatives)
WouldAcceptEither(alternatives) ==
    /\ Ready
    /\ Outcome("_would_accept_either", alternatives,
               _would_accept_either(tokens, alternatives))

NextAccept ==
    \/ \E acceptables \in AcceptableSeqs(MaxSeq) : Accept(acceptables)
    \/ \E acceptables \in AcceptableSeqs(MaxSeq) : TryAccept(acceptables)
    \/ \E acceptables \in AcceptableSeqs(MaxSeq) : WouldAccept(acceptables)
    \/ \E a1, a2 \in AcceptableSeqs(MaxAlt) :
          WouldAcceptEither(<<a1>>) \/ WouldAcceptEither(<<a1, a2>>)
    \/ GoOn

SpecAccept == InitAccept /\ [][NextAccept]_vars

----
(* Claims about the primitives of Parser *)

\* the tokens a cursor has in store
TokensOf(self) == [k \in 1..Horizon |-> Upcoming(self)[k].ret]

\* the stream `now` is the stream `before` less its first n tokens
AdvancedBy(now, before, n) ==
    \A k \in 1..(Horizon - n) : now[k] = before[k + n]

\* an acceptable other than NL matches a token
Matches(tok, acceptable) ==
    IF acceptable.type = "str" THEN tok.value = acceptable.v
    ELSE tok.cls = acceptable.v

\* the first position from pos on that holds no NewLine
RECURSIVE RunEnd(_, _)
RunEnd(toks, pos) ==
    IF pos <= Len(toks) /\ toks[pos].cls = "NewLine"
    THEN RunEnd(toks, pos + 1) ELSE pos

\* matching the acceptables against the tokens from position pos on: NL takes
\* the run of NewLine tokens found there, every other acceptable one token
RECURSIVE MatchFrom(_, _, _, _)
MatchFrom(toks, acceptables, pos, first) ==
    IF acceptables = <<>> THEN [ok |-> TRUE, end |-> pos, first |-> first]
    ELSE IF Head(acceptables) = NL
    THEN MatchFrom(toks, Tail(acceptables), RunEnd(toks, pos), first)
    ELSE IF Matches(toks[pos], Head(acceptables))
    THEN MatchFrom(toks, Tail(acceptables), pos + 1,
                   IF first = NoToken THEN toks[pos] ELSE first)
    ELSE [ok |-> FALSE, end |-> pos, first |-> NoToken]

\* C7: _would_accept and _would_accept_either never advance the cursor:
\* whatever they return, the tokens consumed afterwards are the tokens that
\* would have been consumed without the call.
C7_WouldAcceptKeepsCursor ==
    (last.op \in {"_would_accept", "_would_accept_either"})
        => /\ last.exc = "none"
           /\ Upcoming(tokens) = Upcoming(last.before)
           /\ tokens.markers = last.before.markers

C7_Witness ==
    /\ last.op = "_would_accept"
    /\ last.ret = TRUE
    /\ Len(last.arg) = MaxSeq
    /\ last.before.cache = <<>>
    /\ Len(tokens.cache) >= 2

\* C8: _accept with default flags, when the upcoming tokens match the
\* acceptables in order, advances the cursor past exactly the matched tokens,
\* the NewLine tokens taken by NL markers included, and returns the first
\* token matched by an acceptable other than NL; when they do not match it
\* raises ParserException and leaves the cursor where it was.
C8_AcceptMatchesAndAdvances ==
    (last.op = "_accept")
        => LET was == TokensOf(last.before)
               now == TokensOf(tokens)
               m == MatchFrom(was, last.arg, 1, NoToken)
           IN  IF m.ok
               THEN /\ last.exc = "none"
                    /\ AdvancedBy(now, was, m.end - 1)
                    /\ last.ret = m.first
               ELSE /\ last.exc = "ParserException"
                    /\ now = was

C8_Witness ==
    /\ last.op = "_accept"
    /\ last.exc = "none"
    /\ last.arg = <<NL, Str("a"), NL>>
    /\ last.ret = Token("Identifier", "a")
    /\ LET was == TokensOf(last.before)
       IN  /\ was[1].cls = "NewLine"
           /\ was[2].cls = "Identifier"
           /\ was[3].cls = "NewLine"
    /\ TokensOf(tokens)[1] = EOF

----
(* SpecParser: speculative parsing.  The running code calls _try_parse     *)
(* with up to MaxFuncs parse functions and opens simulate() scopes; a      *)
(* parse function calls the primitives, raises ParserException or returns. *)
(* The Lexer behind the cursor may raise LexerException at the end of the  *)
(* tokens it can read.                                                     *)

\* the node returned by the idx-th parse function
Node(idx) == Token("Node", ToString(idx))

InitParser ==
    /\ \E src \in SeqsUpTo(TokenAlphabet, MaxStream), fail \in BOOLEAN :
          tokens = PeekableIterator(src, EOF, fail)
    /\ frames = <<>>
    /\ last = [op |-> "init", arg |-> <<>>, ret |-> NoToken, exc |-> "none",
               before |-> <<>>, frame |-> NoFrame, note |-> ""]
    /\ IdleLexer

\* self._try_parse(f1, ..., fn) is called and f1 starts inside `with`
TryParse(n) ==
    /\ Ready
    /\ Len(frames) < MaxNest
    /\ tokens' = __enter__(tokens)
    /\ frames' = Append(frames, [Frame("try_parse", tokens) EXCEPT
                                    !.idx = 1, !.left = n - 1])
    /\ last' = [Idle EXCEPT !.op = "_try_parse", !.arg = <<n>>,
                            !.before = tokens]
    /\ UNCHANGED lexer_vars

\* the running parse function of _try_parse returns its node
Return ==
    /\ Ready
    /\ frames # <<>>
    /\ Top(frames).kind = "try_parse"
    /\ tokens' = __exit__(tokens, FALSE)
    /\ frames' = PopFrame(frames, Len(Top(tokens.markers)))
    /\ last' = [Idle EXCEPT !.op = "return", !.ret = Node(Top(frames).idx),
                            !.before = tokens, !.frame = Top(frames),
                            !.note = "returned_result"]
    /\ UNCHANGED lexer_vars

\* the running code calls self._raise(message)
Raise ==
    /\ Ready
    /\ \E e \in {_raise(tokens)} :
          Outcome("_raise", <<>>, [self |-> e.self, ret |-> NoToken,
                                   exc |-> e.exc])

\* `with self.tokens.simulate():` is entered
SimulateBegin ==
    /\ Ready
    /\ Len(frames) < MaxNest
    /\ tokens' = simulate_enter(tokens)
    /\ frames' = Append(frames, Frame("simulate", tokens))
    /\ last' = [Idle EXCEPT !.op = "simulate", !.before = tokens]
    /\ UNCHANGED lexer_vars

\* the body of `with self.tokens.simulate():` falls off its end or returns
SimulateEnd(how) ==
    /\ Ready
    /\ frames # <<>>
    /\ Top(frames).kind = "simulate"
    /\ tokens' = simulate_exit(tokens, how)
    /\ frames' = PopFrame(frames, IF simulate_reset(how) THEN 0
                                  ELSE Len(Top(tokens.markers)))
    /\ last' = [Idle EXCEPT !.op = "simulate_exit", !.arg = <<how>>,
                            !.before = tokens, !.frame = Top(frames)]
    /\ UNCHANGED lexer_vars

NextParser ==
    \/ \E n \in 1..MaxFuncs : TryParse(n)
    \/ Return
    \/ Raise
    \/ SimulateBegin
    \/ \E how \in {"normal", "return"} : SimulateEnd(how)
    \/ \E acceptables \in AcceptableSeqs(MaxBody) : Accept(acceptables)
    \/ \E acceptables \in AcceptableSeqs(MaxBody) : TryAccept(acceptables)
    \/ \E acceptables \in AcceptableSeqs(MaxBody) : WouldAccept(acceptables)
    \/ GoOn

SpecParser == InitParser /\ [][NextParser]_vars

----
(* Claims about speculative parsing *)

\* C6: _try_parse runs the parse functions in order, each from the cursor
\* position of the call; it returns the result of the first that does not
\* raise ParserException, with the cursor where that function left it; when
\* every function raises ParserException it returns None with the cursor
\* where it was before the call.
C6_TryParseRollsBack ==
    /\ (last.op = "_try_parse")
          => /\ Top(frames).idx = 1
             /\ Upcoming(tokens) = Upcoming(last.before)
    /\ (last.note = "next_func")
          => /\ Top(frames).idx = last.frame.idx + 1
             /\ Top(frames).left = last.frame.left - 1
             /\ Top(frames).entry = last.frame.entry
             /\ Seen(tokens) = last.frame.entry
    /\ (last.note = "returned_None")
          => /\ last.frame.left = 0
             /\ last.exc = "none"
             /\ Seen(tokens) = last.frame.entry
    /\ (last.note = "returned_result")
          => /\ last.ret = Node(last.frame.idx)
             /\ Len(frames) = Len(last.before.markers) - 1
             /\ Upcoming(tokens) = Upcoming(last.before)

C6_Witness ==
    /\ last.note = "returned_None"
    /\ last.op = "_accept"
    /\ last.frame.idx = MaxFuncs
    /\ Top(last.before.markers) # <<>>
    /\ Upcoming(tokens) # Upcoming(last.before)

\* the call that ran last made the Lexer raise
LexerRaised ==
    /\ ~Ready
    /\ last.op \notin {"_try_parse", "simulate", "simulate_exit", "return"}
    /\ last.before.iterator.fail
    /\ ~tokens.iterator.fail

\* C9: a LexerException raised while a speculative parser peeks or consumes
\* tokens, inside _try_parse or inside simulate(), is not swallowed and does
\* not become a None result: it leaves every open scope and reaches the
\* caller of the parse routine.
C9_LexerExceptionPropagates ==
    LexerRaised
        => /\ last.exc = "LexerException"
           /\ last.note = ""
           /\ frames = <<>>

C9_Witness ==
    /\ LexerRaised
    /\ last.exc = "LexerException"
    /\ Len(last.before.markers) = MaxNest
    /\ Top(last.before.markers) # <<>>
    /\ frames = <<>>

----
(* Lexer.__iter__ (kopyt/lexer.py): the branches of its loop for line      *)
(* breaks, other whitespace, separators and identifiers.  `data` is the    *)
(* source as a sequence of characters; Python's data[a:b] is               *)
(* SubSeq(data, a + 1, b).                                                 *)

\* StackMode
DEFAULT == 0
INSIDE == 1

SEPARATOR_VALUES == {".", ",", "(", ")", "[", "]", "{", "}", ";"}

\* the characters of the sources: brackets, line breaks, a blank, a letter
Chars == {"{", "}", "(", ")", "[", "]", "\n", "\r", " ", "x"}

\* str.isspace
isspace(c) == c \in {"\n", "\r", " "}

\* the letters and the decimal digits of the sources
Letters == {"a", "b", "n", "x", "u", "U", "L"}

\* string.digits
digits == {"0", "1", "2", "3", "4", "5", "6", "7", "8", "9"}

\* string.hexdigits
hexdigits ==
    digits \cup {"a", "b", "c", "d", "e", "f", "A", "B", "C", "D", "E", "F"}

\* str.isdigit
isdigit(c) == c \in digits

\* `c == "_" or unicodedata.category(c) in IDENT_START_CATEGORIES`
is_ident_start(c) == c \in Letters \cup {"_"}

\* `c == "_" or unicodedata.category(c) in IDENT_PART_CATEGORIES`
is_ident_part(c) == c \in Letters \cup digits \cup {"_"}

\* data[k] for 0 <= k < length, and None past the end
CharAt(k) == IF k < Len(data) THEN data[k + 1] ELSE "None"

\* the `end` _read_new_line hands to _read_token
read_new_line_end(c, c_next) ==
    IF c = "\r" /\ c_next = "\n" THEN i + 2 ELSE i + 1

\* where _consume_whitespaces stops, starting from k
RECURSIVE consume_whitespaces_end(_)
consume_whitespaces_end(k) ==
    IF k < Len(data) /\ isspace(CharAt(k)) /\ CharAt(k) \notin {"\n", "\r"}
    THEN consume_whitespaces_end(k + 1) ELSE k

\* the `end` of _read_identifier_or_keyword, scanning from k
RECURSIVE identifier_end(_)
identifier_end(k) ==
    IF k < Len(data) /\ is_ident_part(CharAt(k))
    THEN identifier_end(k + 1) ELSE k

\* a separator that takes `[` for no opener
stack_after_round_only(stack, c) ==
    IF c = "{" THEN Append(stack, DEFAULT)
    ELSE IF c = "(" THEN Append(stack, INSIDE)
    ELSE IF c \in {")", "]", "}"} /\ stack # <<>> THEN Front(stack)
    ELSE stack

\* the stack after the separator c is read
stack_after(stack, c) ==
    IF c = "{" THEN Append(stack, DEFAULT)
    ELSE IF c \in {"(", "["} THEN Append(stack, INSIDE)
    ELSE IF c \in {")", "]", "}"} /\ stack # <<>> THEN Front(stack)
    ELSE stack

\* Position(line, column)
Position(line, column) == [line |-> line, column |-> column]

\* a loop that starts a new column count at every "\r" and a new line at
\* "\n" only
next_line_and_column_at_lf(position, c, c_next) ==
    Position(IF c = "\n" THEN position.line + 1 ELSE position.line,
             IF c \in {"\n", "\r"} THEN 1 ELSE position.column + 1)

\* the body of the loop of _compute_line_and_column: cur_line and
\* cur_column after the character c, which c_next follows
next_line_and_column(position, c, c_next) ==
    IF c = "\n" \/ (c = "\r" /\ c_next # "\n")
    THEN Position(position.line + 1, 1)
    ELSE Position(position.line, position.column + 1)

\* _compute_line_and_column: Position(self.lines[k], self.columns[k])
RECURSIVE _compute_line_and_column(_)
_compute_line_and_column(k) ==
    IF k = 0 THEN Position(1, 1)
    ELSE next_line_and_column(_compute_line_and_column(k - 1),
                              CharAt(k - 1), CharAt(k))

\* _read_token(token_type, end): the token, and self.i = end
read_token(token_type, end) ==
    [cls |-> token_type, value |-> SubSeq(data, i + 1, end),
     position |-> _compute_line_and_column(i)]

\* self.data[k] as Python indexes it: a negative k counts from the end
Subscript(k) == IF k < 0 THEN data[Len(data) + k + 1] ELSE data[k + 1]

\* what a reader hands to _read_token, or the exception it raises
Read(token_type, end) == [cls |-> token_type, end |-> end, exc |-> "none"]

_error(exc) == [cls |-> "None", end |-> i, exc |-> exc]

\* _peek_unsigned_and_long
_peek_unsigned_and_long(start) ==
    LET unsigned == IF start < Len(data) /\ CharAt(start) \in {"u", "U"}
                    THEN start + 1 ELSE start
    IN  IF unsigned < Len(data) /\ CharAt(unsigned) = "L"
        THEN unsigned + 1 ELSE unsigned

\* _peek_digits
RECURSIVE _peek_digits(_, _)
_peek_digits(start, allowed) ==
    IF start < Len(data) /\ (CharAt(start) \in allowed \/ CharAt(start) = "_")
    THEN _peek_digits(start + 1, allowed) ELSE start

\* _determine_integer_type
_determine_integer_type(end, default) ==
    IF Subscript(end - 1) \in {"u", "U"} \/ Subscript(end - 2) \in {"u", "U"}
    THEN "UnsignedLiteral"
    ELSE IF Subscript(end - 1) = "L" THEN "LongLiteral"
    ELSE default

\* _read_integer_or_real_literal: the real literals are left out
_read_integer_or_real_literal ==
    LET peeked == _peek_digits(i, digits)
        suffixed == _peek_unsigned_and_long(peeked)
    IN  IF peeked >= Len(data) \/ CharAt(peeked) \notin {".", "e", "E", "f", "F"}
        THEN Read(_determine_integer_type(suffixed, "IntegerLiteral"),
                  suffixed)
        ELSE _error("Beyond")

\* _read_hex_literal
_read_hex_literal ==
    LET j == _peek_unsigned_and_long(_peek_digits(i + 2, hexdigits))
    IN  Read(_determine_integer_type(j, "HexLiteral"), j)

\* _read_bin_literal
_read_bin_literal ==
    LET j == _peek_unsigned_and_long(_peek_digits(i + 2, {"0", "1"}))
    IN  Read(_determine_integer_type(j, "BinLiteral"), j)

\* _read_digit_literal
_read_digit_literal(c, c_next) ==
    IF c = "0" /\ c_next \in {"x", "X"} THEN _read_hex_literal
    ELSE IF c = "0" /\ c_next \in {"b", "B"} THEN _read_bin_literal
    ELSE _read_integer_or_real_literal

\* what a skipping function returns: the index it stopped at
Skipped(end) == Read("None", end)

\* _skip_escape_sequence
_skip_escape_sequence(start) ==
    LET esc == CharAt(start + 1)
        unichar == start + 2
    IN  IF start + 1 >= Len(data) THEN _error("LexerException")
        ELSE IF esc \notin {"u", "t", "b", "r", "n", "'", "\"", "\\", "$"}
        THEN _error("LexerException")
        ELSE IF esc # "u" THEN Skipped(start + 2)
        ELSE IF unichar + 4 >= Len(data) THEN _error("LexerException")
        ELSE IF \E j \in unichar..(unichar + 3) : CharAt(j) \notin hexdigits
        THEN _error("LexerException")
        ELSE Skipped(unichar + 4)

\* _skip_string_expression, and its loop from index k with `count` braces
\* open
RECURSIVE _skip_string_expression(_)
RECURSIVE string_expression_loop(_, _)
string_expression_loop(k, count) ==
    LET c == CharAt(k)
        skipped(end) == IF end.exc # "none" THEN end
                        ELSE string_expression_loop(end.end, count)
    IN  IF k < Len(data) /\ count > 0
        THEN IF c = "}" THEN string_expression_loop(k + 1, count - 1)
             ELSE IF c = "\\" THEN skipped(_skip_escape_sequence(k))
             ELSE IF c = "$" /\ k + 1 < Len(data) /\ CharAt(k + 1) = "{"
             THEN skipped(_skip_string_expression(k))
             ELSE IF c = "{" THEN string_expression_loop(k + 1, count + 1)
             ELSE string_expression_loop(k + 1, count)
        ELSE IF count > 0 THEN _error("LexerException")
        ELSE Skipped(k)

_skip_string_expression(start) == string_expression_loop(start + 2, 1)

\* how many `"` follow one another from index k on
RECURSIVE quotes(_)
quotes(k) == IF k < Len(data) /\ CharAt(k) = "\"" THEN 1 + quotes(k + 1) ELSE 0

\* _skip_string_literal: its loop from index k
RECURSIVE string_literal_loop(_, _)
string_literal_loop(k, single_line) ==
    LET c == CharAt(k)
        len_quote == IF single_line THEN 1 ELSE 3
        skipped(end) == IF end.exc # "none" THEN end
                        ELSE string_literal_loop(end.end, single_line)
    IN  IF k < Len(data)
        THEN IF c = "\""
             THEN IF single_line THEN Skipped(k + 1)
                  ELSE IF quotes(k) >= len_quote THEN Skipped(k + quotes(k))
                  ELSE string_literal_loop(k + 1, single_line)
             ELSE IF c = "$" /\ k + 1 < Len(data) /\ CharAt(k + 1) = "{"
             THEN skipped(_skip_string_expression(k))
             ELSE IF single_line /\ c = "\\"
             THEN skipped(_skip_escape_sequence(k))
             ELSE string_literal_loop(k + 1, single_line)
        ELSE _error("LexerException")

_skip_string_literal(single_line) ==
    string_literal_loop(i + (IF single_line THEN 1 ELSE 3), single_line)

\* _read_string_literal, with _read_line_string_literal and
\* _read_multi_line_string_literal
_read_string_literal ==
    LET read(token_type, end) ==
            IF end.exc # "none" THEN end ELSE Read(token_type, end.end)
    IN  IF i + 2 < Len(data) /\ SubSeq(data, i + 1, i + 3) = <<"\"", "\"", "\"">>
        THEN read("MultiLineStringLiteral", _skip_string_literal(FALSE))
        ELSE read("LineStringLiteral", _skip_string_literal(TRUE))

\* _read_character_literal
_read_character_literal ==
    LET k == i + 1
        closing(end) ==
            IF end.exc # "none" THEN end
            ELSE IF end.end >= Len(data) \/ CharAt(end.end) # "'"
            THEN _error("LexerException")
            ELSE Read("CharacterLiteral", end.end + 1)
    IN  IF k >= Len(data) THEN _error("LexerException")
        ELSE IF CharAt(k) = "\\" THEN closing(_skip_escape_sequence(k))
        ELSE IF CharAt(k) # "'" THEN closing(Skipped(k + 1))
        ELSE closing(Skipped(k))

\* the branches of the loop of __iter__ that follow the separators
read_literal_or_identifier(c, c_next) ==
    IF c = "\"" THEN _read_string_literal
    ELSE IF c = "'" THEN _read_character_literal
    ELSE IF isdigit(c) THEN _read_digit_literal(c, c_next)
    ELSE IF is_ident_start(c) THEN Read("Identifier", identifier_end(i + 1))
    ELSE _error("LexerException")

InitLexer ==
    /\ data \in SeqsUpTo(Chars, MaxData)
    /\ i = 0
    /\ stack_mode = <<DEFAULT>>
    /\ yielded = <<>>
    /\ lexer_pc = "running"
    /\ tokens = <<>>
    /\ frames = <<>>
    /\ last = [op |-> "init", c |-> "None", i |-> 0, stack_mode |-> <<>>,
               yielded |-> <<>>]

Stepped(c) ==
    [op |-> "step", c |-> c, i |-> i, stack_mode |-> stack_mode,
     yielded |-> yielded]

\* one turn of the `while self.i < self.length` loop
LexStep ==
    /\ lexer_pc = "running"
    /\ i < Len(data)
    /\ LET c == CharAt(i)
           c_next == CharAt(i + 1)
       IN  /\ last' = Stepped(c)
           /\ IF isspace(c) /\ c \in {"\n", "\r"}
              THEN LET end == read_new_line_end(c, c_next)
                       new_lines == read_token("NewLine", end)
                   IN  /\ i' = end
                       /\ stack_mode' = stack_mode
                       /\ IF stack_mode = <<>>
                          THEN /\ lexer_pc' = "IndexError"
                               /\ yielded' = yielded
                          ELSE /\ lexer_pc' = lexer_pc
                               /\ yielded' =
                                    IF Top(stack_mode) = DEFAULT
                                    THEN Append(yielded, new_lines)
                                    ELSE yielded
              ELSE IF isspace(c)
              THEN /\ i' = consume_whitespaces_end(i)
                   /\ UNCHANGED <<stack_mode, yielded, lexer_pc>>
              ELSE IF c \in SEPARATOR_VALUES
              THEN /\ stack_mode' = stack_after(stack_mode, c)
                   /\ yielded' = Append(yielded, read_token("Separator", i + 1))
                   /\ i' = i + 1
                   /\ lexer_pc' = lexer_pc
              ELSE \E read \in {read_literal_or_identifier(c, c_next)} :
                     IF read.exc # "none"
                     THEN /\ lexer_pc' = read.exc
                          /\ UNCHANGED <<i, stack_mode, yielded>>
                     ELSE /\ yielded' = Append(yielded,
                                               read_token(read.cls, read.end))
                          /\ i' = read.end
                          /\ UNCHANGED <<stack_mode, lexer_pc>>
    /\ UNCHANGED <<tokens, frames, data>>

\* the loop ends: the generator is exhausted
LexStop ==
    /\ lexer_pc = "running"
    /\ i >= Len(data)
    /\ lexer_pc' = "done"
    /\ last' = [last EXCEPT !.op = "stop"]
    /\ UNCHANGED <<tokens, frames, data, i, stack_mode, yielded>>

NextLexer == LexStep \/ LexStop

SpecLexer == InitLexer /\ [][NextLexer]_vars

----
(* Claims about the mode stack of the Lexer *)

\* the mode stack the characters cs, read from the start, leave behind
RECURSIVE ModeStack(_)
ModeStack(cs) ==
    IF cs = <<>> THEN <<DEFAULT>>
    ELSE LET before == ModeStack(Front(cs))
             c == cs[Len(cs)]
         IN  IF c = "{" THEN before \o <<DEFAULT>>
             ELSE IF c \in {"(", "["} THEN before \o <<INSIDE>>
             ELSE IF c \in {"}", ")", "]"}
             THEN (IF before = <<>> THEN before ELSE Front(before))
             ELSE before

LineBreaks == {"\n", "\r"}

\* C10: the mode stack starts as [DEFAULT], gets DEFAULT pushed on `{` and
\* INSIDE on `(` or `[`, and is popped on every closer; a line break is
\* emitted as a NewLine token exactly when the top of the stack is DEFAULT,
\* and is consumed without any token emitted when the top is INSIDE.
C10_ModeStackAndNewLines ==
    /\ stack_mode = ModeStack(SubSeq(data, 1, i))
    /\ (last.op = "step" /\ last.c \in LineBreaks)
          => /\ (last.stack_mode # <<>> /\ Top(last.stack_mode) = DEFAULT)
                   <=> /\ Len(yielded) = Len(last.yielded) + 1
                       /\ Top(yielded).cls = "NewLine"
             /\ (last.stack_mode # <<>> /\ Top(last.stack_mode) = INSIDE)
                   => /\ yielded = last.yielded
                      /\ i > last.i
                      /\ lexer_pc = "running"
    /\ (last.op = "step" /\ last.c \notin LineBreaks)
          => \/ yielded = last.yielded
             \/ Top(yielded).cls # "NewLine"

C10_Witness ==
    /\ last.op = "step"
    /\ last.c = "\n"
    /\ Len(last.stack_mode) = 3
    /\ Top(last.stack_mode) = INSIDE
    /\ last.stack_mode[2] = DEFAULT
    /\ yielded = last.yielded
    /\ \E k \in 1..Len(yielded) : yielded[k].cls = "NewLine"

\* (line, column) of p is lexicographically less than or equal to that of q
NotAfter(p, q) ==
    \/ p.line < q.line
    \/ p.line = q.line /\ p.column <= q.column

\* C18: for any two tokens the lexer emits one after the other, the
\* (line, column) position of the earlier one is lexicographically less
\* than or equal to that of the later one.
C18_PositionsNonDecreasing ==
    \A k \in 1..(Len(yielded) - 1) :
        NotAfter(yielded[k].position, yielded[k + 1].position)

\* a token on the first line, then a line break, then a token on the
\* second line have been emitted
C18_Witness ==
    /\ Len(yielded) = 3
    /\ yielded[1].position = Position(1, 1)
    /\ yielded[2].cls = "NewLine"
    /\ yielded[3].position.line = 2
    /\ yielded[3].cls = "Identifier"

----
(* The recursive-descent parser (kopyt/parser.py), run as a machine with   *)
(* an explicit call stack.  `frames` holds one frame per parse function    *)
(* that has been called and has not returned: its name `fn`, the place     *)
(* `pc` where it goes on once the function it has called comes back, and   *)
(* its local variables `v`.  `last` holds what the callee handed back: the *)
(* value returned or the exception raised.  A parse function is an         *)
(* operator that, given the cursor, its frame and what came back, says     *)
(* what the function does up to its next call, return or raise.  The      *)
(* cursor of these runs reads a list of tokens, so a peek raises nothing.  *)

\* a node of the tree: its class, its operator or name, its child nodes
node(class, op, kids) == [class |-> class, op |-> op, kids |-> kids]

\* Python's None where an Optional[Node] is returned
NoNode == node("None", "", <<>>)

NoArgs == [none |-> TRUE]

\* the function calls fn(args) and goes on at pc with the locals v
DoCall(self, fn, args, pc, v) ==
    [do |-> "call", self |-> self, fn |-> fn, args |-> args, pc |-> pc,
     v |-> v, ret |-> NoNode, exc |-> "none"]

\* the function returns ret
DoReturn(self, ret) ==
    [do |-> "return", self |-> self, fn |-> "", args |-> NoArgs, pc |-> "",
     v |-> NoArgs, ret |-> ret, exc |-> "none"]

\* the function lets the exception of r pass
DoRaised(r) ==
    [do |-> "raise", self |-> r.self, fn |-> "", args |-> NoArgs, pc |-> "",
     v |-> NoArgs, ret |-> NoNode, exc |-> r.exc]

\* self._raise(message)
DoRaise(self) == DoRaised(_raise(self))

\* the function stays in its frame and goes on at pc with the locals v
DoGoto(self, pc, v) ==
    [do |-> "goto", self |-> self, fn |-> "", args |-> NoArgs, pc |-> pc,
     v |-> v, ret |-> NoNode, exc |-> "none"]

\* a branch of the parser taken only on tokens that no source of the model
\* holds; NothingBeyond checks that no run gets there
Beyond(self) == DoRaised([self |-> self, exc |-> "Beyond"])

\* self._accept(*acceptables)
accept(self, acceptables) == _accept(self, acceptables, TRUE, TRUE)

RECURSIVE _consume_new_lines(_)
_consume_new_lines(self) ==
    LET tried(r) == IF r.ret THEN _consume_new_lines(r.self) ELSE r.self
    IN  tried(_try_accept(self, <<Class("NewLine")>>))

SUSPEND == <<<<Str("suspend")>>>>

VARIANCE_MODIFIERS == <<<<Str("in")>>, <<Str("out")>>>>

\* the loop `while True` of parse_modifiers; an annotation is beyond the
\* sources
RECURSIVE parse_modifiers_loop(_, _, _)
parse_modifiers_loop(self, allowed, modifiers) ==
    LET accepted(token) ==
            IF token.exc # "none"
            THEN [self |-> token.self, ret |-> modifiers, exc |-> token.exc]
            ELSE parse_modifiers_loop(
                     _consume_new_lines(token.self), allowed,
                     Append(modifiers,
                            node("Modifier", token.ret.value, <<>>)))
        is_name(w) ==
            IF w.ret
            THEN [self |-> w.self, ret |-> modifiers, exc |-> "none"]
            ELSE accepted(accept(w.self, <<Class("Token")>>))
        annotated(w) ==
            [self |-> w.self, ret |-> modifiers,
             exc |-> IF w.ret THEN "Beyond" ELSE "none"]
        is_allowed(w) ==
            IF w.ret
            THEN is_name(_would_accept_either(w.self,
                             <<<<Class("Token"), NL, Str(")")>>,
                               <<Class("Token"), NL, Str(":")>>>>))
            ELSE annotated(_would_accept(w.self, <<NL, Class("At")>>))
    IN  is_allowed(_would_accept_either(self, allowed))

parse_modifiers(self, allowed) == parse_modifiers_loop(self, allowed, <<>>)

\* simulate() around the body of _is_accepting_annotated_lambda;
\* parse_annotations is beyond the sources
_is_accepting_annotated_lambda(self) ==
    LET left(r) ==
            [self |-> simulate_exit(r.self, "return"), ret |-> r.ret,
             exc |-> r.exc]
        labelled(label) == _would_accept(label.self, <<NL, Str("{")>>)
        annotated(w) ==
            IF w.ret THEN [self |-> w.self, ret |-> FALSE, exc |-> "Beyond"]
            ELSE labelled(_try_accept(w.self, <<Class("Identifier"),
                                                Class("At")>>))
    IN  left(annotated(_would_accept(simulate_enter(self),
                                     <<NL, Class("At")>>)))

\* Parser._try_parse: `with self.tokens: return parse_func()` for each
\* parse function in turn, `except ParserException: pass` around it
_try_parse(self, f, got) ==
    LET try(parse_funcs) ==
            IF parse_funcs = <<>> THEN DoReturn(self, NoNode)
            ELSE DoCall(__enter__(self), Head(parse_funcs), NoArgs, "called",
                        [parse_funcs |-> Tail(parse_funcs)])
        left(exited) ==
            IF got.exc = "none" THEN DoReturn(exited, got.ret)
            ELSE IF try_parse_catches(got.exc)
            THEN IF f.v.parse_funcs = <<>> THEN DoReturn(exited, NoNode)
                 ELSE DoCall(__enter__(exited), Head(f.v.parse_funcs), NoArgs,
                             "called",
                             [parse_funcs |-> Tail(f.v.parse_funcs)])
            ELSE DoRaised([self |-> exited, exc |-> got.exc])
    IN  IF f.pc = "start" THEN try(f.v.parse_funcs)
        ELSE left(__exit__(self, got.exc # "none"))

parse_type(self, f, got) ==
    LET parsed(modifiers) ==
            IF modifiers.exc # "none" THEN DoRaised(modifiers)
            ELSE DoCall(modifiers.self, "_try_parse",
                        [parse_funcs |-> <<"parse_function_type",
                                           "parse_nullable_type",
                                           "parse_type_reference",
                                           "parse_parenthesized_type">>],
                        "subtype", [modifiers |-> modifiers.ret])
    IN  IF f.pc = "start" THEN parsed(parse_modifiers(self, SUSPEND))
        ELSE IF got.ret = NoNode THEN DoRaise(self)
        ELSE DoReturn(self, node("Type", "", f.v.modifiers \o <<got.ret>>))

parse_type_reference(self, f, got) ==
    LET accepted(token) ==
            IF token.exc # "none" THEN DoRaised(token)
            ELSE DoReturn(token.self, node("TypeReference", "dynamic", <<>>))
        tested(w) ==
            IF w.ret THEN accepted(accept(w.self, <<Str("dynamic")>>))
            ELSE DoCall(w.self, "parse_user_type", NoArgs, "subtype", NoArgs)
    IN  IF f.pc = "start" THEN tested(_would_accept(self, <<Str("dynamic")>>))
        ELSE DoReturn(self, node("TypeReference", "", <<got.ret>>))

\* parse_nullable_type; what follows a `?` is beyond the sources
\* the loop `while self._try_accept("?")` of parse_nullable_type, with the
\* question marks counted so far
RECURSIVE quests(_, _)
quests(self, nullable) ==
    LET tried(r) ==
            IF r.ret THEN quests(r.self, nullable \o "?")
            ELSE [self |-> r.self, ret |-> nullable]
    IN  tried(_try_accept(self, <<Str("?")>>))

parse_nullable_type(self, f, got) ==
    LET counted(q) ==
            DoReturn(q.self, node("NullableType", q.ret, <<got.ret>>))
        accepted(token) ==
            IF token.exc # "none" THEN DoRaised(token)
            ELSE counted(quests(token.self, "?"))
        tested(w) ==
            IF w.ret
            THEN DoCall(w.self, "parse_parenthesized_type", NoArgs,
                        "subtype", NoArgs)
            ELSE DoCall(w.self, "parse_type_reference", NoArgs, "subtype",
                        NoArgs)
    IN  IF f.pc = "start" THEN tested(_would_accept(self, <<Str("(")>>))
        ELSE accepted(accept(self, <<NL, Str("?")>>))

parse_user_type(self, f, got) ==
    LET accepted(a, types) ==
            IF a.exc # "none" THEN DoRaised(a)
            ELSE DoCall(a.self, "parse_simple_user_type", NoArgs, "types",
                        [types |-> types])
        tested(w, types) ==
            IF w.ret THEN accepted(accept(w.self, <<NL, Str("."), NL>>), types)
            ELSE DoReturn(w.self, node("UserType", "", types))
        appended(types) ==
            tested(_would_accept(self, <<NL, Str("."), NL,
                                         Class("Identifier")>>), types)
    IN  IF f.pc = "start"
        THEN DoCall(self, "parse_simple_user_type", NoArgs, "types",
                    [types |-> <<>>])
        ELSE appended(Append(f.v.types, got.ret))

parse_simple_user_type(self, f, got) ==
    LET tested(w, token) ==
            IF w.ret
            THEN DoCall(_consume_new_lines(w.self), "parse_type_arguments",
                        NoArgs, "generics", [token |-> token])
            ELSE DoReturn(w.self, node("SimpleUserType", token.value, <<>>))
        accepted(token) ==
            IF token.exc # "none" THEN DoRaised(token)
            ELSE tested(_would_accept(token.self, <<NL, Str("<")>>),
                        token.ret)
    IN  IF f.pc = "start" THEN accepted(accept(self, <<Class("Identifier")>>))
        ELSE DoReturn(self, node("SimpleUserType", f.v.token.value,
                                 <<got.ret>>))

parse_type_projection(self, f, got) ==
    LET accepted(token) ==
            IF token.exc # "none" THEN DoRaised(token)
            ELSE DoReturn(token.self, node("TypeProjectionStar", "", <<>>))
        parsed(modifiers) ==
            IF modifiers.exc # "none" THEN DoRaised(modifiers)
            ELSE DoCall(modifiers.self, "parse_type", NoArgs, "projection",
                        [modifiers |-> modifiers.ret])
        tested(w) ==
            IF w.ret THEN accepted(accept(w.self, <<Str("*")>>))
            ELSE parsed(parse_modifiers(w.self, VARIANCE_MODIFIERS))
    IN  IF f.pc = "start" THEN tested(_would_accept(self, <<Str("*")>>))
        ELSE DoReturn(self, node("TypeProjectionWithType", "",
                                 f.v.modifiers \o <<got.ret>>))

\* parse_function_type: the `try: with self.tokens:` ends with the raise
\* of parse_function_type_parameters at its first token, and the receiver
\* is tried next; what follows an opening parenthesis is beyond the sources
parse_function_type(self, f, got) ==
    LET left(parameters) ==
            IF parameters.exc = "none"
            THEN Beyond(parameters.self)
            ELSE IF parameters.exc = "ParserException"
            THEN DoCall(__exit__(parameters.self, TRUE),
                        "parse_receiver_type", NoArgs, "receiver", NoArgs)
            ELSE DoRaised([self |-> __exit__(parameters.self, TRUE),
                           exc |-> parameters.exc])
        parsed(parameters) ==
            IF parameters.exc # "none" THEN DoRaised(parameters)
            ELSE Beyond(parameters.self)
        accepted(a) ==
            IF a.exc # "none" THEN DoRaised(a)
            ELSE parsed(accept(a.self, <<Str("(")>>))
    IN  IF f.pc = "start" THEN left(accept(__enter__(self), <<Str("(")>>))
        ELSE accepted(accept(self, <<NL, Str("."), NL>>))

\* parse_parenthesized_type up to its first token
parse_parenthesized_type(self, f, got) ==
    LET closed(token) ==
            IF token.exc # "none" THEN DoRaised(token)
            ELSE DoReturn(token.self,
                          node("ParenthesizedType", "", <<got.ret>>))
        accepted(token) ==
            IF token.exc # "none" THEN DoRaised(token)
            ELSE DoCall(token.self, "parse_type", NoArgs, "subtype", NoArgs)
    IN  IF f.pc = "start" THEN accepted(accept(self, <<Str("("), NL>>))
        ELSE closed(accept(self, <<NL, Str(")")>>))

parse_receiver_type(self, f, got) ==
    LET parsed(modifiers) ==
            IF modifiers.exc # "none" THEN DoRaised(modifiers)
            ELSE DoCall(modifiers.self, "_try_parse",
                        [parse_funcs |-> <<"parse_nullable_type",
                                           "parse_type_reference",
                                           "parse_parenthesized_type">>],
                        "subtype", [modifiers |-> modifiers.ret])
    IN  IF f.pc = "start" THEN parsed(parse_modifiers(self, SUSPEND))
        ELSE IF got.ret = NoNode THEN DoRaise(self)
        ELSE DoReturn(self, node("ReceiverType", "",
                                 f.v.modifiers \o <<got.ret>>))

\* parse_type_arguments: the first projection, then the loop
\* `while not self._would_accept(NL, ">")` and the closing `>`
parse_type_arguments(self, f, got) ==
    LET projections == Append(f.v.projections, got.ret)
        opened(token) ==
            IF token.exc # "none" THEN DoRaised(token)
            ELSE DoCall(token.self, "parse_type_projection", NoArgs,
                        "projections", [projections |-> <<>>])
        closed(token) ==
            IF token.exc # "none" THEN DoRaised(token)
            ELSE DoReturn(token.self, node("TypeArguments", "", projections))
        close(s) == closed(accept(s, <<NL, Str(">")>>))
        again(w) ==
            IF w.ret THEN close(w.self)
            ELSE DoCall(_consume_new_lines(w.self), "parse_type_projection",
                        NoArgs, "projections", [projections |-> projections])
        accepted(a) ==
            IF a.exc # "none" THEN DoRaised(a)
            ELSE again(_would_accept(a.self, <<NL, Str(">")>>))
        tested(w) ==
            IF w.ret THEN close(w.self)
            ELSE accepted(accept(w.self, <<NL, Str(",")>>))
    IN  IF f.pc = "start" THEN opened(accept(self, <<Str("<"), NL>>))
        ELSE tested(_would_accept(self, <<NL, Str(">")>>))

\* parse_callable_reference; what follows `::` is beyond the sources
parse_callable_reference(self, f, got) ==
    LET accepted(token) ==
            IF token.exc # "none" THEN DoRaised(token)
            ELSE Beyond(token.self)
        tested(w) ==
            IF ~w.ret
            THEN DoCall(w.self, "parse_receiver_type", NoArgs, "receiver",
                        NoArgs)
            ELSE accepted(accept(w.self, <<Str("::"), NL>>))
    IN  IF f.pc = "start" THEN tested(_would_accept(self, <<Str("::")>>))
        ELSE accepted(accept(self, <<Str("::"), NL>>))

\* parse_primary_expression; parse_simple_identifier is the branch of the
\* sources, literals and the values of keywords, brackets and braces are
\* beyond them
parse_primary_expression(self, f, got) ==
    LET accepted(token) ==
            IF token.exc # "none" THEN DoRaised(token)
            ELSE DoReturn(token.self,
                          node("SimpleIdentifier", token.ret.value, <<>>))
        peeked(p) ==
            LET token == p.ret
            IN  IF isinstance(token, "LiteralConstant") THEN Beyond(p.self)
                ELSE IF isinstance(token, "StringLiteral") THEN Beyond(p.self)
                ELSE IF isinstance(token, "Identifier")
                THEN accepted(accept(p.self, <<Class("Identifier")>>))
                ELSE IF token.value \in
                            {"if", "when", "try", "return", "return@",
                             "continue", "continue@", "break", "break@",
                             "throw", "(", "this", "this@", "super", "super@",
                             "{", "fun", "object", "["}
                THEN Beyond(p.self)
                ELSE DoRaise(p.self)
    IN  IF f.pc = "start"
        THEN DoCall(self, "_try_parse",
                    [parse_funcs |-> <<"parse_callable_reference">>],
                    "reference", NoArgs)
        ELSE IF got.ret # NoNode THEN DoReturn(self, got.ret)
        ELSE peeked(peek(self, 0))

parse_postfix_unary_expression(self, f, got) ==
    LET try(expression, suffixes) ==
            DoCall(self, "_try_parse",
                   [parse_funcs |-> <<"parse_postfix_unary_suffix">>],
                   "suffix",
                   [expression |-> expression, suffixes |-> suffixes])
    IN  CASE f.pc = "start" ->
                 DoCall(self, "parse_primary_expression", NoArgs,
                        "expression", NoArgs)
          [] f.pc = "expression" -> try(got.ret, <<>>)
          [] f.pc = "suffix" ->
                 IF got.ret # NoNode
                 THEN try(f.v.expression, Append(f.v.suffixes, got.ret))
                 ELSE IF f.v.suffixes = <<>>
                 THEN DoReturn(self, f.v.expression)
                 ELSE DoReturn(self,
                               node("PostfixUnaryExpression", "",
                                    <<f.v.expression>> \o f.v.suffixes))

\* parse_postfix_unary_suffix; navigation and indexing suffixes are beyond
\* the sources
parse_postfix_unary_suffix(self, f, got) ==
    LET accepted(token) ==
            IF token.exc # "none" THEN DoRaised(token)
            ELSE DoReturn(token.self, node("str", token.ret.value, <<>>))
        indexing(w) ==
            IF w.ret THEN Beyond(w.self)
            ELSE DoCall(w.self, "_try_parse",
                        [parse_funcs |-> <<"parse_call_suffix">>],
                        "call_suffix", NoArgs)
        navigation(w) ==
            IF w.ret THEN Beyond(w.self)
            ELSE indexing(_would_accept(w.self, <<Str("[")>>))
        excl(r) ==
            IF r.ret THEN DoReturn(r.self, node("str", "!!", <<>>))
            ELSE navigation(_would_accept_either(r.self,
                                <<<<NL, Str(".")>>,
                                  <<NL, Str("?"), Str(".")>>,
                                  <<Str("::")>>>>))
        operator(w) ==
            IF w.ret THEN accepted(accept(w.self, <<Class("Token")>>))
            ELSE excl(_try_accept(w.self, <<Str("!"), Str("!")>>))
        generics(w) ==
            IF w.ret
            THEN DoCall(w.self, "parse_type_arguments", NoArgs, "return",
                        NoArgs)
            ELSE DoRaise(w.self)
    IN  CASE f.pc = "start" ->
                 operator(_would_accept_either(self, <<<<Str("++")>>,
                                                       <<Str("--")>>>>))
          [] f.pc = "call_suffix" ->
                 IF got.ret # NoNode THEN DoReturn(self, got.ret)
                 ELSE generics(_would_accept(self, <<Str("<")>>))
          [] f.pc = "return" -> DoReturn(self, got.ret)

\* Python's empty tuple where `generics = tuple()`
NoGenerics == node("tuple", "", <<>>)

\* parse_call_suffix; value arguments and an annotated lambda are beyond
\* the sources
parse_call_suffix(self, f, got) ==
    LET lambda(l, generics) ==
            IF l.exc # "none" THEN DoRaised(l)
            ELSE IF l.ret THEN Beyond(l.self)
            ELSE IF generics # NoGenerics
            THEN DoReturn(l.self, node("CallSuffix", "", <<generics>>))
            ELSE DoRaise(l.self)
        arguments(w, generics) ==
            IF w.ret THEN Beyond(w.self)
            ELSE lambda(_is_accepting_annotated_lambda(w.self), generics)
        tested(w) ==
            IF w.ret
            THEN DoCall(w.self, "parse_type_arguments", NoArgs, "generics",
                        NoArgs)
            ELSE arguments(_would_accept(w.self, <<Str("(")>>), NoGenerics)
    IN  IF f.pc = "start" THEN tested(_would_accept(self, <<Str("<")>>))
        ELSE arguments(_would_accept(self, <<Str("(")>>), got.ret)

\* parse_unary_prefix; parse_annotation and parse_label are beyond the
\* sources
parse_unary_prefix(self) ==
    LET raised(e) == [self |-> e.self, ret |-> NoToken, exc |-> e.exc]
        operator(w) ==
            IF w.ret THEN accept(w.self, <<Class("Token"), NL>>)
            ELSE raised(_raise(w.self))
        labelled(w) ==
            IF w.ret THEN [self |-> w.self, ret |-> NoToken, exc |-> "Beyond"]
            ELSE operator(_would_accept_either(w.self,
                              <<<<Str("++")>>, <<Str("--")>>, <<Str("-")>>,
                                <<Str("+")>>, <<Str("!")>>>>))
        annotated(w) ==
            IF w.ret THEN [self |-> w.self, ret |-> NoToken, exc |-> "Beyond"]
            ELSE labelled(_would_accept(w.self, <<Class("Identifier"),
                                                  Class("At")>>))
    IN  annotated(_would_accept(self, <<NL, Class("At")>>))

\* parse_unary_prefixes, with the list `prefixes` it has built so far
RECURSIVE parse_unary_prefixes(_, _)
parse_unary_prefixes(self, prefixes) ==
    LET taken(prefix) ==
            IF prefix.exc # "none"
            THEN [self |-> prefix.self, ret |-> prefixes, exc |-> prefix.exc]
            ELSE parse_unary_prefixes(
                     prefix.self,
                     Append(prefixes, node("str", prefix.ret.value, <<>>)))
        tested(w) ==
            IF w.ret THEN taken(parse_unary_prefix(w.self))
            ELSE [self |-> w.self, ret |-> prefixes, exc |-> "none"]
    IN  tested(_would_accept_either(self,
                   <<<<NL, Class("At")>>,
                     <<Class("Identifier"), Class("At")>>,
                     <<Str("++")>>, <<Str("--")>>, <<Str("-")>>,
                     <<Str("+")>>, <<Str("!")>>>>))

parse_prefix_unary_expression(self, f, got) ==
    LET parsed(prefixes) ==
            IF prefixes.exc # "none" THEN DoRaised(prefixes)
            ELSE DoCall(prefixes.self, "parse_postfix_unary_expression",
                        NoArgs, "expression", [prefixes |-> prefixes.ret])
    IN  IF f.pc = "start" THEN parsed(parse_unary_prefixes(self, <<>>))
        ELSE IF f.v.prefixes # <<>>
        THEN DoReturn(self, node("PrefixUnaryExpression", "",
                                 f.v.prefixes \o <<got.ret>>))
        ELSE DoReturn(self, got.ret)

\* The binary levels share one shape:
\*     left = operand()
\*     while test: operator = ...; right = operand_or_type(); left = Class(...)
\*     return left
\* `try` is the sequence of a `while self._try_accept(...)`; `either` holds
\* the alternatives of a `while self._would_accept_either(...)` and
\* `operator` the sequence of the `_accept(...).value` that follows it;
\* `typed` holds the operators whose right operand is parse_type().
binary_loop(self, level, left) ==
    LET taken(a) ==
            IF a.exc # "none" THEN DoRaised(a)
            ELSE DoCall(a.self,
                        IF a.ret.value \in level.typed THEN "parse_type"
                        ELSE level.operand,
                        NoArgs, "right",
                        [left |-> left, operator |-> a.ret.value])
        tested(w) ==
            IF w.ret THEN taken(accept(w.self, level.operator))
            ELSE DoReturn(w.self, left)
        tried(r) ==
            IF r.ret
            THEN DoCall(r.self, level.operand, NoArgs, "right",
                        [left |-> left, operator |-> ""])
            ELSE DoReturn(r.self, left)
    IN  IF level.try # <<>> THEN tried(_try_accept(self, level.try))
        ELSE tested(_would_accept_either(self, level.either))

parse_binary(self, f, got, level) ==
    CASE f.pc = "start" ->
             DoCall(self, level.operand, NoArgs, "left", NoArgs)
      [] f.pc = "left" -> binary_loop(self, level, got.ret)
      [] f.pc = "right" ->
             binary_loop(self, level,
                         node(level.class, f.v.operator,
                              <<f.v.left, got.ret>>))

Level(class, operand, try, either, operator, typed) ==
    [class |-> class, operand |-> operand, try |-> try, either |-> either,
     operator |-> operator, typed |-> typed]

\* parse_expression and the functions it calls down to
\* parse_as_expression; parse_expression and
\* parse_generic_call_like_comparison return what the next level returns
Levels ==
    [parse_expression |->
         Level("", "parse_disjunction", <<>>, <<>>, <<>>, {}),
     parse_disjunction |->
         Level("Disjunction", "parse_conjunction",
               <<NL, Str("||"), NL>>, <<>>, <<>>, {}),
     parse_conjunction |->
         Level("Conjunction", "parse_equality",
               <<NL, Str("&&"), NL>>, <<>>, <<>>, {}),
     parse_equality |->
         Level("Equality", "parse_comparison", <<>>,
               <<<<Str("==")>>, <<Str("!=")>>, <<Str("===")>>,
                 <<Str("!==")>>>>,
               <<Class("Operator"), NL>>, {}),
     parse_comparison |->
         Level("Comparison", "parse_generic_call_like_comparison", <<>>,
               <<<<Str("<")>>, <<Str(">")>>, <<Str("<=")>>, <<Str(">=")>>>>,
               <<Class("Operator"), NL>>, {}),
     parse_generic_call_like_comparison |->
         Level("", "parse_infix_operation", <<>>, <<>>, <<>>, {}),
     parse_infix_operation |->
         Level("InfixOperation", "parse_elvis_expression", <<>>,
               <<<<Str("in")>>, <<Str("!in")>>, <<Str("is")>>,
                 <<Str("!is")>>>>,
               <<Class("Operator"), NL>>, {"is", "!is"}),
     parse_elvis_expression |->
         Level("ElvisExpression", "parse_infix_function_call",
               <<NL, Str("?:"), NL>>, <<>>, <<>>, {}),
     parse_infix_function_call |->
         Level("InfixFunctionCall", "parse_range_expression", <<>>,
               <<<<Class("Identifier")>>>>,
               <<Class("Identifier"), NL>>, {}),
     parse_range_expression |->
         Level("RangeExpression", "parse_additive_expression",
               <<Str(".."), NL>>, <<>>, <<>>, {}),
     parse_additive_expression |->
         Level("AdditiveExpression", "parse_multiplicative_expression",
               <<>>, <<<<Str("+")>>, <<Str("-")>>>>,
               <<Class("Operator"), NL>>, {}),
     parse_multiplicative_expression |->
         Level("MultiplicativeExpression", "parse_as_expression", <<>>,
               <<<<Str("*")>>, <<Str("/")>>, <<Str("%")>>>>,
               <<Class("Operator"), NL>>, {}),
     parse_as_expression |->
         Level("AsExpression", "parse_prefix_unary_expression", <<>>,
               <<<<NL, Str("as")>>, <<NL, Str("as?")>>>>,
               <<NL, Class("Operator"), NL>>, {"as", "as?"})]

----
(* SpecExpr: parse_expression called on `a OP b OP c ...`, the way         *)
(* tests/test_parser_expression.py calls it through do_test.               *)

\* the operators of the sources, one or more of each level of precedence;
\* `f` is an identifier in the place of an infix function
ExprOperators ==
    {"||", "&&", "==", "<", ">", "in", "is", "?:", "f", "..", "+", "*", "as"}

\* the operands of the sources, in the order they are written
ExprOperands == <<"a", "b", "c", "d">>

\* the tokens the lexer gives for `a code[1] b code[2] c ...`: operands and
\* `f` are identifiers, the other words are operators
ExprSource(code) ==
    [k \in 1..(2 * Len(code) + 1) |->
        IF k % 2 = 1 THEN Token("Identifier", ExprOperands[(k + 1) \div 2])
        ELSE IF code[k \div 2] = "f" THEN Token("Identifier", "f")
        ELSE Token("Operator", code[k \div 2])]

\* TestParserBase.do_test and do_test_exception: Parser(code), then the
\* parse function; the frame keeps what came back
do_test(self, f, got) ==
    IF f.pc = "start"
    THEN DoCall(self, f.v.parse_func, f.v.kwargs, "result", f.v)
    ELSE DoGoto(self, "done",
                [parse_func |-> f.v.parse_func, code |-> f.v.code,
                 kwargs |-> f.v.kwargs, result |-> got.ret,
                 exc |-> got.exc])

\* the functions that have a `try` or a `with` around the call they wait
\* for, and the test drivers, which look at what the call did
Handlers ==
    {"_try_parse", "do_test", "round_trip", "do_test_parse",
     "do_test_statement_and_assignment", "parse_assignment",
     "parse_directly_assignable_expression"}

\* one of the functions fns is the one running
Runs(fns) ==
    /\ frames # <<>>
    /\ Top(frames).fn \in fns
    /\ Top(frames).pc # "done"
    /\ last.exc = "none" \/ Top(frames).fn \in Handlers

\* the running function goes on up to its next call, return or raise
Step(t) ==
    /\ tokens' = t.self
    /\ frames' =
           CASE t.do = "call" ->
                    Append([frames EXCEPT ![Len(frames)].pc = t.pc,
                                          ![Len(frames)].v = t.v],
                           [fn |-> t.fn, pc |-> "start", v |-> t.args])
             [] t.do = "goto" ->
                    [frames EXCEPT ![Len(frames)].pc = t.pc,
                                   ![Len(frames)].v = t.v]
             [] t.do \in {"return", "raise"} -> Front(frames)
    /\ last' = IF t.do \in {"return", "raise"}
               THEN [ret |-> t.ret, exc |-> t.exc]
               ELSE [ret |-> NoNode, exc |-> "none"]
    /\ UNCHANGED lexer_vars

\* an exception passes through a function that has no `try` around the call
Propagate ==
    /\ frames # <<>>
    /\ last.exc # "none"
    /\ Top(frames).fn \notin Handlers
    /\ frames' = Front(frames)
    /\ UNCHANGED <<tokens, last, lexer_vars>>

RunTest ==
    /\ Runs({"do_test"})
    /\ \E t \in {do_test(tokens, Top(frames), last)} : Step(t)

RunTryParse ==
    /\ Runs({"_try_parse"})
    /\ \E t \in {_try_parse(tokens, Top(frames), last)} : Step(t)

\* a parse function of types runs
RunType ==
    /\ Runs({"parse_type", "parse_type_reference", "parse_nullable_type",
             "parse_user_type", "parse_simple_user_type",
             "parse_type_projection", "parse_function_type",
             "parse_parenthesized_type", "parse_receiver_type",
             "parse_type_arguments"})
    /\ LET self == tokens
           f == Top(frames)
       IN  \E t \in {CASE f.fn = "parse_type" -> parse_type(self, f, last)
                       [] f.fn = "parse_type_reference" ->
                              parse_type_reference(self, f, last)
                       [] f.fn = "parse_nullable_type" ->
                              parse_nullable_type(self, f, last)
                       [] f.fn = "parse_user_type" ->
                              parse_user_type(self, f, last)
                       [] f.fn = "parse_simple_user_type" ->
                              parse_simple_user_type(self, f, last)
                       [] f.fn = "parse_type_projection" ->
                              parse_type_projection(self, f, last)
                       [] f.fn = "parse_function_type" ->
                              parse_function_type(self, f, last)
                       [] f.fn = "parse_parenthesized_type" ->
                              parse_parenthesized_type(self, f, last)
                       [] f.fn = "parse_receiver_type" ->
                              parse_receiver_type(self, f, last)
                       [] f.fn = "parse_type_arguments" ->
                              parse_type_arguments(self, f, last)} : Step(t)

\* parse_expression or one of the binary levels below it runs
RunBinary ==
    /\ Runs(DOMAIN Levels)
    /\ \E t \in {parse_binary(tokens, Top(frames), last,
                              Levels[Top(frames).fn])} : Step(t)

\* a parse function of unary and primary expressions runs
RunUnary ==
    /\ Runs({"parse_prefix_unary_expression",
             "parse_postfix_unary_expression", "parse_postfix_unary_suffix",
             "parse_call_suffix", "parse_primary_expression",
             "parse_callable_reference"})
    /\ LET self == tokens
           f == Top(frames)
       IN  \E t \in {CASE f.fn = "parse_prefix_unary_expression" ->
                              parse_prefix_unary_expression(self, f, last)
                       [] f.fn = "parse_postfix_unary_expression" ->
                              parse_postfix_unary_expression(self, f, last)
                       [] f.fn = "parse_postfix_unary_suffix" ->
                              parse_postfix_unary_suffix(self, f, last)
                       [] f.fn = "parse_call_suffix" ->
                              parse_call_suffix(self, f, last)
                       [] f.fn = "parse_primary_expression" ->
                              parse_primary_expression(self, f, last)
                       [] f.fn = "parse_callable_reference" ->
                              parse_callable_reference(self, f, last)} :
               Step(t)

InitExpr ==
    /\ \E code \in SeqsUpTo(ExprOperators, MaxOps) :
           /\ tokens = PeekableIterator(ExprSource(code), EOF, FALSE)
           /\ frames = <<[fn |-> "do_test", pc |-> "start",
                          v |-> [parse_func |-> "parse_expression",
                                 code |-> code, kwargs |-> NoArgs]]>>
    /\ last = [ret |-> NoNode, exc |-> "none"]
    /\ IdleLexer

NextExpr ==
    \/ RunTest
    \/ RunTryParse
    \/ Propagate
    \/ RunType
    \/ RunBinary
    \/ RunUnary

SpecExpr == InitExpr /\ [][NextExpr]_vars

\* no run takes a branch that the model leaves out
NothingBeyond == last.exc # "Beyond"

\* the node of the operand written `name`
Operand(name) == node("SimpleIdentifier", name, <<>>)

\* do_test has got back what the parse function did with `a code[1] b ...`
Tested(code) ==
    /\ Len(frames) = 1
    /\ Top(frames).fn = "do_test"
    /\ Top(frames).pc = "done"
    /\ Top(frames).v.code = code

\* C11: parse_expression on `a < b > c` returns the comparison tree
\* `(a < b) > c`: the `<` is not taken as the start of a type-argument or
\* call suffix on `a`.
C11_ComparisonNotSuffix ==
    Tested(<<"<", ">">>) =>
        /\ Top(frames).v.exc = "none"
        /\ Top(frames).v.result =
               node("Comparison", ">",
                    <<node("Comparison", "<", <<Operand("a"), Operand("b")>>),
                      Operand("c")>>)

\* the level of the precedence table that an operator of the sources
\* belongs to, the loosest level first
Rank(op) ==
    CASE op = "||" -> 1
      [] op = "&&" -> 2
      [] op = "==" -> 3
      [] op \in {"<", ">"} -> 4
      [] op \in {"in", "is"} -> 5
      [] op = "?:" -> 6
      [] op = "f" -> 7
      [] op = ".." -> 8
      [] op = "+" -> 9
      [] op = "*" -> 10
      [] op = "as" -> 11

\* the operators whose right operand is a type
TypeOperators == {"is", "as"}

\* the tree of `left op right`; the right operand of `is` and `as` is the
\* type written `right`, that of the other operators the operand `right`
Binary(op, left, right) ==
    LET class == <<"Disjunction", "Conjunction", "Equality", "Comparison",
                   "InfixOperation", "ElvisExpression", "InfixFunctionCall",
                   "RangeExpression", "AdditiveExpression",
                   "MultiplicativeExpression", "AsExpression">>[Rank(op)]
        operator == IF op \in {"||", "&&", "?:", ".."} THEN "" ELSE op
        type == node("Type", "",
                    <<node("TypeReference", "",
                          <<node("UserType", "",
                                <<node("SimpleUserType", right.op,
                                       <<>>)>>)>>)>>)
    IN  node(class, operator,
             <<left, IF op \in TypeOperators THEN type ELSE right>>)

\* C12: for `a OP1 b OP2 c` with the operators from different levels of the
\* precedence table, the tree has OP1 at the root and `(b OP2 c)` as its
\* right operand when OP1 binds more loosely, and OP2 at the root and
\* `(a OP1 b)` as its left operand when OP1 binds more tightly.  The
\* sources in which `b OP2 c` would have to be the type after `is` or `as`
\* are not of that form and are left out.
C12_NestsByPrecedence ==
    \A OP1, OP2 \in ExprOperators :
        (/\ Tested(<<OP1, OP2>>)
         /\ Rank(OP1) # Rank(OP2)
         /\ ~(OP1 \in TypeOperators /\ Rank(OP1) < Rank(OP2))) =>
            /\ Top(frames).v.exc = "none"
            /\ Top(frames).v.result =
                   IF Rank(OP1) < Rank(OP2)
                   THEN Binary(OP1, Operand("a"),
                               Binary(OP2, Operand("b"), Operand("c")))
                   ELSE Binary(OP2, Binary(OP1, Operand("a"), Operand("b")),
                               Operand("c"))

----
(* SpecRound: a source is parsed, the tree is printed with str(), and the  *)
(* printed text is parsed again.  A text is a sequence of characters.      *)

\* the characters of the sources: an operator character, a blank, a letter
RoundChars == {"-", " ", "x"}

\* OPERATOR_VALUES_PER_LEN, for the operators made of RoundChars
OPERATOR_VALUES_PER_LEN == <<{<<"-">>}, {<<"-", "-">>}, {}>>

\* "".join(chars)
RECURSIVE join(_)
join(chars) == IF chars = <<>> THEN "" ELSE Head(chars) \o join(Tail(chars))

\* list(s), the characters of the string s
list(s) == CHOOSE chars \in [1..Len(s) -> RoundChars] : join(chars) = s

\* the `end` of _read_identifier_or_keyword in the text, scanning from k
RECURSIVE read_identifier_end(_, _)
read_identifier_end(text, k) ==
    IF k < Len(text) /\ is_ident_part(text[k + 1])
    THEN read_identifier_end(text, k + 1) ELSE k

\* the `end` of _read_operator at k: the longest operator, l characters or
\* fewer; k itself when _try_operator finds none
RECURSIVE read_operator_end(_, _, _)
read_operator_end(text, k, l) ==
    IF l = 0 THEN k
    ELSE IF SubSeq(text, k + 1, k + l) \in OPERATOR_VALUES_PER_LEN[l]
    THEN k + l
    ELSE read_operator_end(text, k, l - 1)

\* list(Lexer(text)) from self.i = k on: blanks, identifiers and operators;
\* the tokens, and whether the Lexer raises after them
RECURSIVE Lexer(_, _)
Lexer(text, k) ==
    LET c == text[k + 1]
        max_len == IF Len(text) - k < 3 THEN Len(text) - k ELSE 3
        read(token_type, end) ==
            LET rest == Lexer(text, end)
            IN  [rest EXCEPT
                    !.tokens = <<Token(token_type,
                                       join(SubSeq(text, k + 1, end)))>>
                               \o @]
        operator(end) ==
            IF end = k THEN [tokens |-> <<>>, fail |-> TRUE]
            ELSE read("Operator", end)
    IN  IF k >= Len(text) THEN [tokens |-> <<>>, fail |-> FALSE]
        ELSE IF isspace(c) THEN Lexer(text, k + 1)
        ELSE IF is_ident_start(c)
        THEN read("Identifier", read_identifier_end(text, k + 1))
        ELSE operator(read_operator_end(text, k, max_len))

\* Parser(code).tokens
Parser(code) ==
    LET lexed(l) == PeekableIterator(l.tokens, EOF, l.fail)
    IN  lexed(Lexer(code, 0))

\* Node.__str__ of the classes the sources give: an identifier, a prefix or
\* suffix operator, PrefixUnaryExpression, PostfixUnaryExpression, and
\* BinaryExpression
RECURSIVE __str__(_)
__str__(n) ==
    CASE n.class \in {"SimpleIdentifier", "str"} -> list(n.op)
      [] n.class \in {"PrefixUnaryExpression", "PostfixUnaryExpression"} ->
             Flatten([k \in DOMAIN n.kids |-> __str__(n.kids[k])])
      [] OTHER ->
             __str__(n.kids[1]) \o <<" ">> \o list(n.op) \o <<" ">>
                 \o __str__(n.kids[2])

\* parse(str(parse(code))): the parse function on the code, str() of the
\* tree it returns, and the parse function on the printed text.  Parser("")
\* raises IndexError: Lexer.eof reads self.lines[-1] of an empty list.
round_trip(self, f, got) ==
    LET printed == __str__(got.ret)
        failed(exc) ==
            DoGoto(self, "done",
                   [parse_func |-> f.v.parse_func, code |-> f.v.code,
                    result |-> NoNode, exc |-> exc, printed |-> <<>>,
                    again |-> NoNode, exc_again |-> "none"])
    IN  CASE f.pc = "start" /\ f.v.code = <<>> -> failed("IndexError")
          [] f.pc = "start" /\ f.v.code # <<>> ->
                 DoCall(self, f.v.parse_func, NoArgs, "parsed", f.v)
          [] f.pc = "parsed" /\ got.exc # "none" -> failed(got.exc)
          [] f.pc = "parsed" /\ got.exc = "none" ->
                 DoCall(Parser(printed), f.v.parse_func, NoArgs, "reparsed",
                        [parse_func |-> f.v.parse_func, code |-> f.v.code,
                         result |-> got.ret, printed |-> printed])
          [] f.pc = "reparsed" ->
                 DoGoto(self, "done",
                        [parse_func |-> f.v.parse_func, code |-> f.v.code,
                         result |-> f.v.result, exc |-> "none",
                         printed |-> f.v.printed, again |-> got.ret,
                         exc_again |-> got.exc])

RunRoundTrip ==
    /\ Runs({"round_trip"})
    /\ \E t \in {round_trip(tokens, Top(frames), last)} : Step(t)

InitRound ==
    /\ \E code \in SeqsUpTo(RoundChars, MaxText) :
           /\ tokens = Parser(code)
           /\ frames = <<[fn |-> "round_trip", pc |-> "start",
                          v |-> [parse_func |-> "parse_expression",
                                 code |-> code]]>>
    /\ last = [ret |-> NoNode, exc |-> "none"]
    /\ IdleLexer

NextRound ==
    \/ RunRoundTrip
    \/ RunTryParse
    \/ Propagate
    \/ RunType
    \/ RunBinary
    \/ RunUnary

SpecRound == InitRound /\ [][NextRound]_vars

\* the round trip of a source has ended
RoundTripped ==
    /\ Len(frames) = 1
    /\ Top(frames).fn = "round_trip"
    /\ Top(frames).pc = "done"

\* the sources of the alphabet that tests/test_parser_expression.py hands
\* to do_test with test_str on: `-x`, `--x`, `x--`, `x - x`
CanonicalSources ==
    {<<"-", "x">>, <<"-", "-", "x">>, <<"x", "-", "-">>,
     <<"x", " ", "-", " ", "x">>}

\* C13: for every source that the parser accepts, parsing the printed tree
\* again gives a structurally equal tree, parse(str(parse(source))) =
\* parse(source); and for the sources in the canonical form of the test
\* harness, str(parse(source)) = source.
C13_RoundTrip ==
    (RoundTripped /\ Top(frames).v.exc = "none") =>
        /\ Top(frames).v.exc_again = "none"
        /\ Top(frames).v.again = Top(frames).v.result
        /\ Top(frames).v.code \in CanonicalSources =>
               Top(frames).v.printed = Top(frames).v.code

----
(* SpecTry: parse_try_expression called on try expressions and on what is  *)
(* left of them when parts are missing, the way tests/test_parser_try.py   *)
(* calls it through do_test.                                               *)

\* _consume_semis(optional=True): the EOF test first, then the loop
\* `while self._try_accept(";") or self._try_accept(NewLine)`
RECURSIVE _consume_semis(_, _)
_consume_semis(self, first) ==
    LET new_line(r) == IF r.ret THEN _consume_semis(r.self, FALSE) ELSE r.self
        semi(r) ==
            IF r.ret THEN _consume_semis(r.self, FALSE)
            ELSE new_line(_try_accept(r.self, <<Class("NewLine")>>))
        eof(r) ==
            IF r.ret THEN r.self ELSE semi(_try_accept(r.self, <<Str(";")>>))
    IN  IF first THEN eof(_try_accept(self, <<Class("EOF")>>))
        ELSE semi(_try_accept(self, <<Str(";")>>))

\* parse_block; a statement in the block is beyond the sources
parse_block(self, f, got) ==
    LET closed(r) ==
            IF r.ret THEN DoReturn(r.self, node("Block", "", <<>>))
            ELSE Beyond(r.self)
        accepted(token) ==
            IF token.exc # "none" THEN DoRaised(token)
            ELSE closed(_try_accept(_consume_semis(token.self, TRUE),
                                    <<NL, Str("}")>>))
    IN  accepted(accept(self, <<Str("{"), NL>>))

\* parse_catch_block; an annotation is beyond the sources
parse_catch_block(self, f, got) ==
    LET closed(token) ==
            IF token.exc # "none" THEN DoRaised(token)
            ELSE DoCall(token.self, "parse_block", NoArgs, "block", f.v)
        typed(r) == closed(accept(r.self, <<Str(")"), NL>>))
        colon(token, name) ==
            IF token.exc # "none" THEN DoRaised(token)
            ELSE DoCall(token.self, "parse_type", NoArgs, "catch_type",
                        [name |-> name, catch_type |-> NoNode])
        named(name) ==
            IF name.exc # "none" THEN DoRaised(name)
            ELSE colon(accept(name.self, <<Str(":")>>), name.ret.value)
        annotations(w) ==
            IF w.ret THEN Beyond(w.self)
            ELSE named(accept(w.self, <<Class("Identifier")>>))
        opened(token) ==
            IF token.exc # "none" THEN DoRaised(token)
            ELSE annotations(_would_accept(token.self, <<NL, Class("At")>>))
        accepted(token) ==
            IF token.exc # "none" THEN DoRaised(token)
            ELSE opened(accept(token.self, <<NL, Str("(")>>))
    IN  CASE f.pc = "start" -> accepted(accept(self, <<Str("catch")>>))
          [] f.pc = "catch_type" ->
                 LET v == [f.v EXCEPT !.catch_type = got.ret]
                     comma(token) ==
                         IF token.exc # "none" THEN DoRaised(token)
                         ELSE DoCall(token.self, "parse_block", NoArgs,
                                     "block", v)
                     trailing(r) == comma(accept(r.self, <<Str(")"), NL>>))
                 IN  trailing(_try_accept(self, <<NL, Str(",")>>))
          [] f.pc = "block" ->
                 DoReturn(self, node("CatchBlock", f.v.name,
                                     <<f.v.catch_type, got.ret>>))

parse_finally_block(self, f, got) ==
    LET accepted(token) ==
            IF token.exc # "none" THEN DoRaised(token)
            ELSE DoCall(token.self, "parse_block", NoArgs, "block", NoArgs)
    IN  IF f.pc = "start" THEN accepted(accept(self, <<Str("finally"), NL>>))
        ELSE DoReturn(self, node("FinallyBlock", "", <<got.ret>>))

\* a condition that forgets the finally block
not_catch_blocks(catch_blocks, finally_block) == catch_blocks = <<>>

\* `not catch_blocks and not finally_block` of parse_try_expression
not_catch_blocks_and_not_finally_block(catch_blocks, finally_block) ==
    catch_blocks = <<>> /\ finally_block = NoNode

parse_try_expression(self, f, got) ==
    LET finish(me, v) ==
            IF not_catch_blocks_and_not_finally_block(v.catch_blocks,
                                                      v.finally_block)
            THEN DoRaise(me)
            ELSE DoReturn(me, node("TryExpression", "",
                                   <<v.try_block>> \o v.catch_blocks
                                       \o <<v.finally_block>>))
        would_finally(w, v) ==
            IF w.ret
            THEN DoCall(_consume_new_lines(w.self), "parse_finally_block",
                        NoArgs, "finally_block", v)
            ELSE finish(w.self, v)
        would_catch(w, v) ==
            IF w.ret
            THEN DoCall(_consume_new_lines(w.self), "parse_catch_block",
                        NoArgs, "catch_blocks", v)
            ELSE would_finally(
                     _would_accept(w.self, <<NL, Str("finally")>>), v)
        loop(me, v) == would_catch(_would_accept(me, <<NL, Str("catch")>>), v)
        accepted(token) ==
            IF token.exc # "none" THEN DoRaised(token)
            ELSE DoCall(token.self, "parse_block", NoArgs, "try_block",
                        [try_block |-> NoNode, catch_blocks |-> <<>>,
                         finally_block |-> NoNode])
    IN  CASE f.pc = "start" -> accepted(accept(self, <<Str("try"), NL>>))
          [] f.pc = "try_block" ->
                 loop(self, [f.v EXCEPT !.try_block = got.ret])
          [] f.pc = "catch_blocks" ->
                 loop(self, [f.v EXCEPT !.catch_blocks =
                                            Append(@, got.ret)])
          [] f.pc = "finally_block" ->
                 finish(self, [f.v EXCEPT !.finally_block = got.ret])

\* a source has up to MaxParts parts
MaxParts == 4

\* the parts of the sources: the three kinds of block, each whole and cut
\* short after its keyword, and a line break
TryParts ==
    [try_block |-> <<Token("HardKeyword", "try"), Token("Separator", "{"),
                     Token("Separator", "}")>>,
     try |-> <<Token("HardKeyword", "try")>>,
     catch_block |-> <<Token("Identifier", "catch"),
                       Token("Separator", "("), Token("Identifier", "e"),
                       Token("Operator", ":"), Token("Identifier", "E"),
                       Token("Separator", ")"), Token("Separator", "{"),
                       Token("Separator", "}")>>,
     catch |-> <<Token("Identifier", "catch")>>,
     finally_block |-> <<Token("Identifier", "finally"),
                         Token("Separator", "{"), Token("Separator", "}")>>,
     finally |-> <<Token("Identifier", "finally")>>,
     new_line |-> <<Token("NewLine", "\n")>>]

\* the tokens of a source
RECURSIVE TrySource(_)
TrySource(code) ==
    IF code = <<>> THEN <<>>
    ELSE TryParts[Head(code)] \o TrySource(Tail(code))

\* a parse function of try expressions runs
RunTry ==
    /\ Runs({"parse_try_expression", "parse_catch_block",
             "parse_finally_block", "parse_block"})
    /\ LET self == tokens
           f == Top(frames)
       IN  \E t \in {CASE f.fn = "parse_try_expression" ->
                              parse_try_expression(self, f, last)
                       [] f.fn = "parse_catch_block" ->
                              parse_catch_block(self, f, last)
                       [] f.fn = "parse_finally_block" ->
                              parse_finally_block(self, f, last)
                       [] f.fn = "parse_block" ->
                              parse_block(self, f, last)} : Step(t)

\* Parser(code) of a source that is not empty, and the call of do_test
InitTry ==
    /\ \E code \in SeqsUpTo(DOMAIN TryParts, MaxParts) \ {<<>>} :
           /\ tokens = PeekableIterator(TrySource(code), EOF, FALSE)
           /\ frames = <<[fn |-> "do_test", pc |-> "start",
                          v |-> [parse_func |-> "parse_try_expression",
                                 code |-> code, kwargs |-> NoArgs]]>>
    /\ last = [ret |-> NoNode, exc |-> "none"]
    /\ IdleLexer

NextTry ==
    \/ RunTest
    \/ RunTryParse
    \/ Propagate
    \/ RunType
    \/ RunTry

SpecTry == InitTry /\ [][NextTry]_vars

\* a test of parse_try_expression has finished
TryTested ==
    /\ Len(frames) = 1
    /\ Top(frames).fn = "do_test"
    /\ Top(frames).pc = "done"
    /\ Top(frames).v.parse_func = "parse_try_expression"

\* what follows a try block in a source: the number of whole catch blocks,
\* whether a whole finally block comes after them, and whether a block cut
\* short stands in their way; line breaks may stand before each block
RECURSIVE Followers(_, _)
Followers(parts, catches) ==
    IF parts = <<>>
    THEN [catches |-> catches, finally |-> FALSE, whole |-> TRUE]
    ELSE CASE Head(parts) = "new_line" -> Followers(Tail(parts), catches)
           [] Head(parts) = "catch_block" ->
                  Followers(Tail(parts), catches + 1)
           [] Head(parts) = "finally_block" ->
                  [catches |-> catches, finally |-> TRUE, whole |-> TRUE]
           [] Head(parts) \in {"catch", "finally"} ->
                  [catches |-> catches, finally |-> FALSE, whole |-> FALSE]
           [] OTHER ->
                  [catches |-> catches, finally |-> FALSE, whole |-> TRUE]

\* the tree of a catch block and of a block of the sources
TheBlock == node("Block", "", <<>>)

TheCatchBlock ==
    node("CatchBlock", "e",
         <<node("Type", "", <<node("TypeReference", "",
               <<node("UserType", "",
                      <<node("SimpleUserType", "E", <<>>)>>)>>)>>),
           TheBlock>>)

\* C14: parse_try_expression accepts a try block followed by zero or more
\* catch blocks and then an optional finally block, and returns the
\* TryExpression that holds them; it raises ParserException when the try
\* block is followed by neither a catch block nor a finally block.
C14_TryCatchFinally ==
    TryTested /\ Head(Top(frames).v.code) = "try_block" =>
        LET v == Top(frames).v
            after == Followers(Tail(v.code), 0)
        IN  after.whole =>
                IF after.catches = 0 /\ ~after.finally
                THEN v.exc = "ParserException"
                ELSE /\ v.exc = "none"
                     /\ v.result =
                            node("TryExpression", "",
                                 <<TheBlock>>
                                     \o [k \in 1..after.catches |->
                                            TheCatchBlock]
                                     \o <<IF after.finally
                                          THEN node("FinallyBlock", "",
                                                    <<TheBlock>>)
                                          ELSE NoNode>>)

\* a try block with two catch blocks and a finally block was accepted
C14_Witness ==
    /\ TryTested
    /\ Top(frames).v.code =
           <<"try_block", "catch_block", "catch_block", "finally_block">>
    /\ Top(frames).v.exc = "none"

----
(* SpecProperty: parse_property_declaration called on property            *)
(* declarations with and without accessors, the way                        *)
(* tests/test_parser_property.py calls it through do_test.                 *)

\* the modifiers parse_modifiers() looks for when it is given none
MODIFIERS ==
    <<<<Str("enum")>>, <<Str("sealed")>>, <<Str("annotation")>>,
      <<Str("data")>>, <<Str("inner")>>, <<Str("value")>>,
      <<Str("override")>>, <<Str("lateinit")>>, <<Str("public")>>,
      <<Str("private")>>, <<Str("internal")>>, <<Str("protected")>>,
      <<Str("tailrec")>>, <<Str("operator")>>, <<Str("infix")>>,
      <<Str("inline")>>, <<Str("external")>>, <<Str("suspend")>>,
      <<Str("const")>>, <<Str("abstract")>>, <<Str("final")>>,
      <<Str("open")>>, <<Str("vararg")>>, <<Str("noinline")>>,
      <<Str("crossinline")>>, <<Str("expect")>>, <<Str("actual")>>>>

\* _consume_semi(optional=True)
_consume_semi(self) ==
    LET new_line(r) == _consume_new_lines(r.self)
        semi(r) ==
            IF r.ret THEN _consume_new_lines(r.self)
            ELSE new_line(_try_accept(r.self, <<Class("NewLine")>>))
        eof(r) ==
            IF r.ret THEN r.self ELSE semi(_try_accept(r.self, <<Str(";")>>))
    IN  eof(_try_accept(self, <<Class("EOF")>>))

\* parse_variable_declaration; an annotation is beyond the sources
parse_variable_declaration(self, f, got) ==
    LET typed(r, ident) ==
            IF r.ret
            THEN DoCall(r.self, "parse_type", NoArgs, "var_type",
                        [name |-> ident.value])
            ELSE DoReturn(r.self,
                          node("VariableDeclaration", ident.value,
                               <<NoNode>>))
        named(ident) ==
            IF ident.exc # "none" THEN DoRaised(ident)
            ELSE typed(_try_accept(ident.self, <<NL, Str(":"), NL>>),
                       ident.ret)
        annotations(w) ==
            IF w.ret THEN Beyond(w.self)
            ELSE named(accept(_consume_new_lines(w.self),
                              <<Class("Identifier")>>))
    IN  IF f.pc = "start"
        THEN annotations(_would_accept(self, <<NL, Class("At")>>))
        ELSE DoReturn(self, node("VariableDeclaration", f.v.name,
                                 <<got.ret>>))

parse_multi_variable_declaration(self, f, got) ==
    LET closed(token, declarations) ==
            IF token.exc # "none" THEN DoRaised(token)
            ELSE DoReturn(token.self,
                          node("MultiVariableDeclaration", "", declarations))
        close(me, declarations) ==
            closed(accept(me, <<NL, Str(")")>>), declarations)
        trailing(w, declarations) ==
            IF w.ret THEN close(w.self, declarations)
            ELSE DoCall(w.self, "parse_variable_declaration", NoArgs,
                        "declarations", [declarations |-> declarations])
        comma(token, declarations) ==
            IF token.exc # "none" THEN DoRaised(token)
            ELSE trailing(_would_accept(token.self, <<NL, Str(")")>>),
                          declarations)
        while(w, declarations) ==
            IF w.ret THEN close(w.self, declarations)
            ELSE comma(accept(w.self, <<NL, Str(","), NL>>), declarations)
        accepted(token) ==
            IF token.exc # "none" THEN DoRaised(token)
            ELSE DoCall(token.self, "parse_variable_declaration", NoArgs,
                        "declarations", [declarations |-> <<>>])
    IN  IF f.pc = "start" THEN accepted(accept(self, <<Str("("), NL>>))
        ELSE while(_would_accept(self, <<NL, Str(")")>>),
                   Append(f.v.declarations, got.ret))

\* _parse_ambiguous_receiver, which returns the pair (ident, receiver);
\* the receiver types of the sources have no modifiers
_parse_ambiguous_receiver(self, f, got) ==
    LET receiver == got.ret
        subtype == receiver.kids[Len(receiver.kids)]
        user_type == subtype.kids[1]
        is_user_type ==
            /\ subtype.class = "TypeReference"
            /\ subtype.op # "dynamic"
            /\ Len(user_type.kids) > 0
            /\ Len(user_type.kids[Len(user_type.kids)].kids) = 0
        is_name_consumed(w) == ~w.ret
        consumed_identifier ==
            node("SimpleIdentifier",
                 user_type.kids[Len(user_type.kids)].op, <<>>)
        remove_receiver_name ==
            IF Len(user_type.kids) = 1 THEN NoNode
            ELSE node("ReceiverType", "",
                      <<node("TypeReference", "",
                             <<node("UserType", "",
                                    SubSeq(user_type.kids, 1,
                                           Len(user_type.kids) - 1))>>)>>)
        tuple(ident, rest) == node("tuple", "", <<ident, rest>>)
        consumed(w) ==
            IF is_name_consumed(w)
            THEN DoReturn(w.self,
                          tuple(consumed_identifier, remove_receiver_name))
            ELSE DoReturn(w.self, tuple(NoNode, receiver))
    IN  IF f.pc = "start"
        THEN DoCall(self, "_try_parse",
                    [parse_funcs |-> <<"parse_receiver_type">>], "receiver",
                    NoArgs)
        ELSE IF receiver = NoNode THEN DoReturn(self, tuple(NoNode, NoNode))
        ELSE IF ~is_user_type THEN DoReturn(self, tuple(NoNode, receiver))
        ELSE consumed(_would_accept(self, <<NL, Str(".")>>))

\* parse_getter and parse_setter; a `(` after the keyword is beyond the
\* sources
parse_accessor(self, keyword, class) ==
    LET body(r) ==
            IF r.ret THEN Beyond(r.self)
            ELSE DoReturn(r.self, node(class, "", <<>>))
        accepted(token) ==
            IF token.exc # "none" THEN DoRaised(token)
            ELSE body(_try_accept(token.self, <<NL, Str("("), NL>>))
        parsed(modifiers) ==
            IF modifiers.exc # "none" THEN DoRaised(modifiers)
            ELSE accepted(accept(modifiers.self, <<Str(keyword)>>))
    IN  parsed(parse_modifiers(self, MODIFIERS))

parse_getter(self, f, got) == parse_accessor(self, "get", "Getter")

parse_setter(self, f, got) == parse_accessor(self, "set", "Setter")

\* the local function accepting() of parse_property_declaration
accepting(self) ==
    LET left(exited, token) ==
            [self |-> exited, accepting_get |-> token.value = "get",
             accepting_set |-> token.value = "set"]
        peeked(p) == left(simulate_exit(p.self, "return"), p.ret)
        parsed(modifiers) == peeked(peek(modifiers.self, 0))
    IN  parsed(parse_modifiers(_consume_new_lines(simulate_enter(self)),
                               MODIFIERS))

\* node.Mutability(value): the module kopyt.node has no attribute
\* Mutability, so the lookup raises AttributeError
Mutability(value) == [ret |-> value, exc |-> "AttributeError"]

\* the number of times the accessor loop `for _ in range(2)` runs
AccessorRounds == 2

\* str(receiver.subtype.subtype) of a parenthesized receiver that holds a
\* plain name; other types are beyond the sources
type_name(type) ==
    LET reference == type.kids[Len(type.kids)]
        user_type == reference.kids[1]
    IN  IF /\ type.class = "Type"
           /\ Len(type.kids) = 1
           /\ reference.class = "TypeReference"
           /\ reference.op # "dynamic"
           /\ Len(user_type.kids) = 1
           /\ user_type.kids[1].kids = <<>>
        THEN user_type.kids[1].op
        ELSE "Beyond"

\* a destructuring declaration let through whatever follows it
annotated_destructuring_unchecked(self) ==
    [self |-> self, ret |-> FALSE, exc |-> "none"]

\* the test `if self._would_accept(NL, ":")` after a destructuring
\* declaration
annotated_destructuring(self) == _would_accept(self, <<NL, Str(":")>>)

parse_property_declaration(self, f, got) ==
    LET finish(me, v) ==
            LET mutability == Mutability(v.token.value)
            IN  IF mutability.exc # "none"
                THEN DoRaised([self |-> me, exc |-> mutability.exc])
                ELSE DoReturn(me, node("PropertyDeclaration", mutability.ret,
                                       <<v.receiver, v.declaration,
                                         v.getter, v.setter>>))
        accepted(a, me, v) ==
            IF a.accepting_get
            THEN IF v.getter # NoNode THEN DoRaise(a.self)
                 ELSE DoCall(_consume_new_lines(a.self), "parse_getter",
                             NoArgs, "getter", v)
            ELSE IF a.accepting_set
            THEN IF v.setter # NoNode THEN DoRaise(a.self)
                 ELSE DoCall(_consume_new_lines(a.self), "parse_setter",
                             NoArgs, "setter", v)
            ELSE finish(a.self, v)
        accessors(me, v) ==
            IF v.top_level_declaration /\ v.rounds < AccessorRounds
            THEN accepted(accepting(me), me, v)
            ELSE finish(me, v)
        semi(r, v) == accessors(r.self, v)
        delegated(w, v) ==
            IF w.ret THEN Beyond(w.self)
            ELSE semi(_try_accept(w.self, <<NL, Str(";")>>), v)
        valued(r, v) ==
            IF r.ret THEN Beyond(r.self)
            ELSE delegated(_would_accept(r.self, <<NL, Str("by")>>), v)
        constrained(w, v) ==
            IF w.ret THEN Beyond(w.self)
            ELSE valued(_try_accept(w.self, <<NL, Str("="), NL>>), v)
        declared(me, v) ==
            constrained(_would_accept(me, <<NL, Str("where")>>), v)
        typed(r, v, consumed) ==
            IF r.ret
            THEN DoCall(r.self, "parse_type", NoArgs, "var_type",
                        [v EXCEPT !.declaration = consumed])
            ELSE declared(r.self,
                          [v EXCEPT !.declaration =
                               node("VariableDeclaration", consumed.op,
                                    <<NoNode>>)])
        destructured(w, v) ==
            IF w.ret THEN DoRaise(w.self)
            ELSE IF type_name(v.receiver.kids[1].kids[1]) = "Beyond"
            THEN Beyond(w.self)
            ELSE declared(w.self,
                     [v EXCEPT !.receiver = NoNode,
                               !.declaration =
                          node("MultiVariableDeclaration", "",
                               <<node("VariableDeclaration",
                                      type_name(v.receiver.kids[1].kids[1]),
                                      <<NoNode>>)>>)])
        dotted_paren(w, v) ==
            IF w.ret THEN DoRaise(w.self)
            ELSE DoCall(w.self, "parse_variable_declaration", NoArgs,
                        "declaration", v)
        dotted(r, v) ==
            IF r.ret THEN dotted_paren(_would_accept(r.self, <<Str("(")>>), v)
            ELSE IF v.receiver.kids[1].class # "ParenthesizedType"
            THEN DoRaised([self |-> r.self, exc |-> "AssertionError"])
            ELSE destructured(_would_accept(r.self, <<Str(":")>>), v)
        paren(w, v) ==
            IF w.ret
            THEN DoCall(w.self, "parse_multi_variable_declaration", NoArgs,
                        "multi", v)
            ELSE IF v.receiver = NoNode
            THEN DoRaised([self |-> w.self, exc |-> "AssertionError"])
            ELSE dotted(_try_accept(w.self, <<Str(".")>>), v)
        received(me, v, consumed) ==
            IF consumed # NoNode
            THEN typed(_try_accept(me, <<Str(":"), NL>>), v, consumed)
            ELSE paren(_would_accept(me, <<Str("(")>>), v)
        generics(w, token) ==
            IF w.ret THEN Beyond(w.self)
            ELSE DoCall(_consume_new_lines(w.self),
                        "_parse_ambiguous_receiver", NoArgs, "receiver",
                        [token |-> token,
                         top_level_declaration |->
                             f.v.top_level_declaration,
                         receiver |-> NoNode, declaration |-> NoNode,
                         getter |-> NoNode, setter |-> NoNode, rounds |-> 0])
        accepted_token(token) ==
            IF token.exc # "none" THEN DoRaised(token)
            ELSE generics(_would_accept(token.self, <<NL, Str("<")>>),
                          token.ret)
        val_or_var(w) ==
            IF w.ret THEN accepted_token(accept(w.self, <<Class("Token")>>))
            ELSE DoRaise(w.self)
        parsed(modifiers) ==
            IF modifiers.exc # "none" THEN DoRaised(modifiers)
            ELSE val_or_var(_would_accept_either(modifiers.self,
                                <<<<Str("val")>>, <<Str("var")>>>>))
        multi(w, v) ==
            IF w.ret THEN DoRaise(w.self) ELSE declared(w.self, v)
    IN  CASE f.pc = "start" -> parsed(parse_modifiers(self, MODIFIERS))
          [] f.pc = "receiver" ->
                 received(_consume_new_lines(self),
                          [f.v EXCEPT !.receiver = got.ret.kids[2]],
                          got.ret.kids[1])
          [] f.pc = "var_type" ->
                 declared(self,
                          [f.v EXCEPT !.declaration =
                               node("VariableDeclaration", @.op,
                                    <<got.ret>>)])
          [] f.pc = "multi" ->
                 multi(annotated_destructuring(self),
                       [f.v EXCEPT !.declaration = got.ret])
          [] f.pc = "declaration" ->
                 declared(self, [f.v EXCEPT !.declaration = got.ret])
          [] f.pc = "getter" ->
                 accessors(_consume_semi(self),
                           [f.v EXCEPT !.getter = got.ret,
                                       !.rounds = @ + 1])
          [] f.pc = "setter" ->
                 accessors(_consume_semi(self),
                           [f.v EXCEPT !.setter = got.ret,
                                       !.rounds = @ + 1])

\* a source has up to MaxDeclaration parts before its accessors
MaxDeclaration == 2

\* a source has up to MaxAccessors accessors and line breaks at its end
MaxAccessors == 3

\* the parts of the sources: a name, a receiver with its dot, a
\* parenthesized name, a destructuring declaration, a type annotation and
\* a nullable type; the accessors without a body, and a line break
PropertyParts ==
    [name |-> <<Token("Identifier", "x")>>,
     receiver |-> <<Token("Identifier", "T"), Token("Separator", ".")>>,
     parenthesized |-> <<Token("Separator", "("), Token("Identifier", "a"),
                         Token("Separator", ")")>>,
     destructuring |-> <<Token("Separator", "("), Token("Identifier", "a"),
                         Token("Separator", ","), Token("Identifier", "b"),
                         Token("Separator", ")")>>,
     type |-> <<Token("Operator", ":"), Token("Identifier", "T")>>,
     nullable |-> <<Token("Identifier", "T"), Token("Operator", "?")>>,
     get |-> <<Token("Identifier", "get")>>,
     set |-> <<Token("Identifier", "set")>>,
     new_line |-> <<Token("NewLine", "\n")>>]

DeclarationParts ==
    {"name", "receiver", "parenthesized", "destructuring", "type", "nullable"}

AccessorParts == {"get", "set", "new_line"}

\* the tokens of a source: `val`, then its parts
RECURSIVE PropertySource(_)
PropertySource(code) ==
    IF code = <<>> THEN <<Token("HardKeyword", "val")>>
    ELSE PropertySource(Front(code)) \o PropertyParts[code[Len(code)]]

\* a parse function of property declarations runs
RunProperty ==
    /\ Runs({"parse_property_declaration", "_parse_ambiguous_receiver",
             "parse_variable_declaration",
             "parse_multi_variable_declaration", "parse_getter",
             "parse_setter"})
    /\ LET self == tokens
           f == Top(frames)
       IN  \E t \in {CASE f.fn = "parse_property_declaration" ->
                              parse_property_declaration(self, f, last)
                       [] f.fn = "_parse_ambiguous_receiver" ->
                              _parse_ambiguous_receiver(self, f, last)
                       [] f.fn = "parse_variable_declaration" ->
                              parse_variable_declaration(self, f, last)
                       [] f.fn = "parse_multi_variable_declaration" ->
                              parse_multi_variable_declaration(self, f, last)
                       [] f.fn = "parse_getter" ->
                              parse_getter(self, f, last)
                       [] f.fn = "parse_setter" ->
                              parse_setter(self, f, last)} : Step(t)

\* Parser(code) and the call of do_test with top_level_declaration
InitProperty ==
    /\ \E declaration \in SeqsUpTo(DeclarationParts, MaxDeclaration),
          accessors \in SeqsUpTo(AccessorParts, MaxAccessors),
          top_level_declaration \in BOOLEAN :
           /\ tokens = PeekableIterator(
                           PropertySource(declaration \o accessors),
                           EOF, FALSE)
           /\ frames = <<[fn |-> "do_test", pc |-> "start",
                          v |-> [parse_func |-> "parse_property_declaration",
                                 code |-> declaration \o accessors,
                                 kwargs |-> [top_level_declaration |->
                                                 top_level_declaration]]]>>
    /\ last = [ret |-> NoNode, exc |-> "none"]
    /\ IdleLexer

NextProperty ==
    \/ RunTest
    \/ RunTryParse
    \/ Propagate
    \/ RunType
    \/ RunProperty

SpecProperty == InitProperty /\ [][NextProperty]_vars

\* a test of parse_property_declaration has finished
PropertyTested ==
    /\ Len(frames) = 1
    /\ Top(frames).fn = "do_test"
    /\ Top(frames).pc = "done"
    /\ Top(frames).v.parse_func = "parse_property_declaration"

\* the parts of a source before its accessors, and its accessors
DeclarationOf(code) == SelectSeq(code, LAMBDA part : part \in DeclarationParts)

AccessorsOf(code) == SelectSeq(code, LAMBDA part : part \in {"get", "set"})

\* the sources that declare a property before their accessors
PropertyHeads ==
    {<<"name">>, <<"name", "type">>, <<"receiver", "name">>,
     <<"parenthesized">>, <<"destructuring">>}

\* the number of `get` and `set` tokens that the parser did not read
AccessorsLeft ==
    Len(SelectSeq(tokens.cache \o tokens.iterator.items,
                  LAMBDA token : token.value \in {"get", "set"}))

\* C15: with top_level_declaration true, a property followed by accessors
\* among which there is a second getter or a second setter is rejected with
\* a ParserException, whatever the order of the accessors, and an accepted
\* property leaves no accessor behind to be parsed as something else.
C15_DuplicateAccessorRejected ==
    (/\ PropertyTested
     /\ Top(frames).v.kwargs.top_level_declaration
     /\ DeclarationOf(Top(frames).v.code) \in PropertyHeads) =>
        LET v == Top(frames).v
            accessors == AccessorsOf(v.code)
            getters == Len(SelectSeq(accessors, LAMBDA a : a = "get"))
            setters == Len(SelectSeq(accessors, LAMBDA a : a = "set"))
        IN  /\ getters > 1 \/ setters > 1 => v.exc = "ParserException"
            /\ v.exc = "none" => AccessorsLeft = 0

\* C16: with top_level_declaration false, parse_property_declaration
\* returns a property without getter and setter and leaves every accessor
\* that follows the declaration unread.
C16_LocalIgnoresAccessors ==
    (/\ PropertyTested
     /\ ~Top(frames).v.kwargs.top_level_declaration
     /\ DeclarationOf(Top(frames).v.code) \in PropertyHeads) =>
        LET v == Top(frames).v
        IN  /\ v.exc = "none"
            /\ v.result.class = "PropertyDeclaration"
            /\ v.result.kids[3] = NoNode
            /\ v.result.kids[4] = NoNode
            /\ AccessorsLeft = Len(AccessorsOf(v.code))

\* C17: parse_property_declaration raises ParserException when a
\* parenthesized or destructuring declaration is followed by a `:` type
\* annotation, and when a receiver type and its `.` are followed by a
\* parenthesized declaration.
C17_DestructuringRejected ==
    (/\ PropertyTested
     /\ DeclarationOf(Top(frames).v.code) \in
            {<<"parenthesized", "type">>, <<"destructuring", "type">>,
             <<"receiver", "parenthesized">>,
             <<"receiver", "destructuring">>}) =>
        Top(frames).v.exc = "ParserException"

\* a destructuring declaration with a type annotation was rejected
C17_Witness ==
    /\ PropertyTested
    /\ Top(frames).v.code = <<"destructuring", "type">>
    /\ Top(frames).v.exc = "ParserException"

----
(* SpecConstructor: parse_primary_constructor called on primary            *)
(* constructors with and without modifiers and `constructor`, the way      *)
(* tests/test_parser_class.py reaches it.                                  *)

\* parse_class_parameter; a default value is beyond the sources
parse_class_parameter(self, f, got) ==
    LET default(w, v) ==
            IF w.ret THEN Beyond(w.self)
            ELSE DoReturn(w.self,
                          node("ClassParameter", v.name,
                               v.modifiers \o <<got.ret>>))
        colon(a, v) ==
            IF a.exc # "none" THEN DoRaised(a)
            ELSE DoCall(a.self, "parse_type", NoArgs, "param_type", v)
        named(token, modifiers) ==
            IF token.exc # "none" THEN DoRaised(token)
            ELSE colon(accept(token.self, <<Str(":"), NL>>),
                       [modifiers |-> modifiers, name |-> token.ret.value])
        mutable(me, mutability, modifiers) ==
            IF mutability.exc # "none"
            THEN DoRaised([self |-> me, exc |-> mutability.exc])
            ELSE named(accept(_consume_new_lines(me),
                              <<Class("Identifier")>>), modifiers)
        var(r, modifiers) ==
            IF r.ret THEN mutable(r.self, Mutability("var"), modifiers)
            ELSE named(accept(_consume_new_lines(r.self),
                              <<Class("Identifier")>>), modifiers)
        val(r, modifiers) ==
            IF r.ret THEN mutable(r.self, Mutability("val"), modifiers)
            ELSE var(_try_accept(r.self, <<Str("var")>>), modifiers)
        parsed(modifiers) ==
            IF modifiers.exc # "none" THEN DoRaised(modifiers)
            ELSE val(_try_accept(modifiers.self, <<Str("val")>>),
                     modifiers.ret)
    IN  IF f.pc = "start" THEN parsed(parse_modifiers(self, MODIFIERS))
        ELSE default(_would_accept(self, <<NL, Str("=")>>), f.v)

parse_class_parameters(self, f, got) ==
    LET closed(token, parameters) ==
            IF token.exc # "none" THEN DoRaised(token)
            ELSE DoReturn(token.self, node("ClassParameters", "", parameters))
        close(me, parameters) ==
            closed(accept(me, <<NL, Str(")")>>), parameters)
        while(w, parameters) ==
            IF w.ret THEN close(w.self, parameters)
            ELSE DoCall(_consume_new_lines(w.self), "parse_class_parameter",
                        NoArgs, "parameters", [parameters |-> parameters])
        comma(token, parameters) ==
            IF token.exc # "none" THEN DoRaised(token)
            ELSE while(_would_accept(token.self, <<NL, Str(")")>>),
                       parameters)
        appended(w, parameters) ==
            IF w.ret THEN close(w.self, parameters)
            ELSE comma(accept(w.self, <<NL, Str(",")>>), parameters)
        accepted(token) ==
            IF token.exc # "none" THEN DoRaised(token)
            ELSE while(_would_accept(token.self, <<NL, Str(")")>>), <<>>)
    IN  IF f.pc = "start" THEN accepted(accept(self, <<Str("(")>>))
        ELSE appended(_would_accept(self, <<NL, Str(")")>>),
                      Append(f.v.parameters, got.ret))

\* the cursor after `except ParserException` of parse_primary_constructor:
\* the `try` is not inside `with self.tokens`, so the cursor stays where
\* the exception left it
constructor_except(before, after) == after

parse_primary_constructor(self, f, got) ==
    LET parameters(me, modifiers, token) ==
            DoCall(me, "parse_class_parameters", NoArgs, "parameters",
                   [modifiers |-> modifiers, token |-> token])
        accepted(token, modifiers) ==
            IF token.exc = "ParserException"
            THEN parameters(constructor_except(self, token.self), <<>>,
                            NoToken)
            ELSE IF token.exc # "none" THEN DoRaised(token)
            ELSE parameters(_consume_new_lines(token.self), modifiers,
                            token.ret)
        parsed(modifiers) ==
            IF modifiers.exc = "ParserException"
            THEN parameters(constructor_except(self, modifiers.self), <<>>,
                            NoToken)
            ELSE IF modifiers.exc # "none" THEN DoRaised(modifiers)
            ELSE accepted(accept(modifiers.self, <<Str("constructor")>>),
                          modifiers.ret)
    IN  IF f.pc = "start" THEN parsed(parse_modifiers(self, MODIFIERS))
        ELSE DoReturn(self, node("PrimaryConstructor", "",
                                 f.v.modifiers \o <<got.ret>>))

\* a source has up to MaxConstructor parts
MaxConstructor == 4

\* the parts of the sources: two modifiers, `constructor`, a parameter
\* list with one parameter, an empty one, and a line break
ConstructorParts ==
    [private |-> <<Token("Identifier", "private")>>,
     public |-> <<Token("Identifier", "public")>>,
     constructor |-> <<Token("Identifier", "constructor")>>,
     parameters |-> <<Token("Separator", "("), Token("Identifier", "a"),
                      Token("Operator", ":"), Token("Identifier", "T"),
                      Token("Separator", ")")>>,
     empty |-> <<Token("Separator", "("), Token("Separator", ")")>>,
     new_line |-> <<Token("NewLine", "\n")>>]

\* the tokens of a source
RECURSIVE ConstructorSource(_)
ConstructorSource(code) ==
    IF code = <<>> THEN <<>>
    ELSE ConstructorParts[Head(code)] \o ConstructorSource(Tail(code))

\* a parse function of primary constructors runs
RunConstructor ==
    /\ Runs({"parse_primary_constructor", "parse_class_parameters",
             "parse_class_parameter"})
    /\ LET self == tokens
           f == Top(frames)
       IN  \E t \in {CASE f.fn = "parse_primary_constructor" ->
                              parse_primary_constructor(self, f, last)
                       [] f.fn = "parse_class_parameters" ->
                              parse_class_parameters(self, f, last)
                       [] f.fn = "parse_class_parameter" ->
                              parse_class_parameter(self, f, last)} : Step(t)

\* Parser(code) of a source that is not empty, and the call of do_test
InitConstructor ==
    /\ \E code \in SeqsUpTo(DOMAIN ConstructorParts, MaxConstructor)
                       \ {<<>>} :
           /\ tokens = PeekableIterator(ConstructorSource(code), EOF, FALSE)
           /\ frames = <<[fn |-> "do_test", pc |-> "start",
                          v |-> [parse_func |-> "parse_primary_constructor",
                                 code |-> code, kwargs |-> NoArgs]]>>
    /\ last = [ret |-> NoNode, exc |-> "none"]
    /\ IdleLexer

NextConstructor ==
    \/ RunTest
    \/ RunTryParse
    \/ Propagate
    \/ RunType
    \/ RunConstructor

SpecConstructor == InitConstructor /\ [][NextConstructor]_vars

\* a test of parse_primary_constructor has finished
ConstructorTested ==
    /\ Len(frames) = 1
    /\ Top(frames).fn = "do_test"
    /\ Top(frames).pc = "done"
    /\ Top(frames).v.parse_func = "parse_primary_constructor"

\* the parts of a source after its leading modifiers and line breaks
RECURSIVE AfterModifiers(_)
AfterModifiers(code) ==
    IF code # <<>> /\ Head(code) \in {"private", "public", "new_line"}
    THEN AfterModifiers(Tail(code)) ELSE code

\* C19: when a source starts with a modifier and no `constructor` follows
\* its modifiers, the attempt to read `[modifiers] 'constructor'` fails and
\* the cursor is backed up to the modifier, so that the parameter list is
\* parsed from there: the call cannot return a constructor that has passed
\* over the modifier, it raises ParserException at the modifier.
C19_FailedAttemptBacksUp ==
    (/\ ConstructorTested
     /\ Head(Top(frames).v.code) \in {"private", "public"}
     /\ \/ AfterModifiers(Top(frames).v.code) = <<>>
        \/ Head(AfterModifiers(Top(frames).v.code)) # "constructor") =>
        Top(frames).v.exc = "ParserException"

----
(* SpecBody: parse_control_structure_body called on braces, arrows and     *)
(* names, up to the parse function it hands the body to.                   *)

\* the loop of is_lambda_literal, the local function of
\* parse_control_structure_body: token is the token looked at, offset the
\* value of the variable `offset`
RECURSIVE is_lambda_literal_loop(_, _, _)
is_lambda_literal_loop(self, offset, token) ==
    LET peeked(p) == is_lambda_literal_loop(p.self, offset + 1, p.ret)
    IN  IF token.value = "}" \/ isinstance(token, "EOF")
        THEN [self |-> self, ret |-> FALSE]
        ELSE IF token.value = "->" THEN [self |-> self, ret |-> TRUE]
        ELSE peeked(peek(self, offset + 1))

\* is_lambda_literal(): `offset = 1`, `token = self.tokens.peek()`
is_lambda_literal(self) ==
    LET peeked(p) == is_lambda_literal_loop(p.self, 1, p.ret)
    IN  peeked(peek(self, 0))

parse_control_structure_body(self, f, got) ==
    LET decided(lambda) ==
            IF lambda.ret
            THEN DoCall(lambda.self, "parse_lambda_literal", NoArgs,
                        "result", NoArgs)
            ELSE DoCall(lambda.self, "parse_block", NoArgs, "result", NoArgs)
        brace(w) ==
            IF w.ret THEN decided(is_lambda_literal(w.self))
            ELSE DoCall(w.self, "parse_statement", NoArgs, "result", NoArgs)
    IN  IF f.pc = "start" THEN brace(_would_accept(self, <<Str("{")>>))
        ELSE DoReturn(self, got.ret)

\* a source has up to MaxBraces tokens
MaxBraces == 6

\* the tokens of the sources
BodyTokens ==
    {Token("Separator", "{"), Token("Separator", "}"),
     Token("Operator", "->"), Token("Identifier", "x")}

\* parse_control_structure_body runs
RunBody ==
    /\ Runs({"parse_control_structure_body"})
    /\ \E t \in {parse_control_structure_body(tokens, Top(frames), last)} :
           Step(t)

\* Parser(code) of a source that is not empty, and the call of do_test
InitBody ==
    /\ \E code \in SeqsUpTo(BodyTokens, MaxBraces) \ {<<>>} :
           /\ tokens = PeekableIterator(code, EOF, FALSE)
           /\ frames = <<[fn |-> "do_test", pc |-> "start",
                          v |-> [parse_func |->
                                     "parse_control_structure_body",
                                 code |-> code, kwargs |-> NoArgs]]>>
    /\ last = [ret |-> NoNode, exc |-> "none"]
    /\ IdleLexer

NextBody ==
    \/ RunTest
    \/ RunBody

SpecBody == InitBody /\ [][NextBody]_vars

\* parse_control_structure_body has handed the body to a parse function
BodyDecided ==
    /\ Len(frames) = 3
    /\ frames[2].fn = "parse_control_structure_body"
    /\ Top(frames).pc = "start"

\* the source begins with `{` and code[k] is the `}` that matches it
RECURSIVE MatchingBrace(_, _, _)
MatchingBrace(code, k, depth) ==
    IF k > Len(code) THEN 0
    ELSE IF code[k].value = "{" THEN MatchingBrace(code, k + 1, depth + 1)
    ELSE IF code[k].value = "}"
    THEN (IF depth = 0 THEN k ELSE MatchingBrace(code, k + 1, depth - 1))
    ELSE MatchingBrace(code, k + 1, depth)

\* code[k] is inside no braces opened after the first token of the source
DepthZero(code, k) ==
    MatchingBrace(SubSeq(code, 1, k - 1), 2, 0) = 0
        /\ \A j \in 2..(k - 1) :
               code[j].value = "{" =>
                   MatchingBrace(SubSeq(code, j, k - 1), 2, 0) # 0

\* C20: a body that starts with `{` is handed to parse_lambda_literal
\* exactly when a `->` stands at nesting depth zero between that `{` and
\* its matching `}`, and to parse_block otherwise; no token is consumed by
\* the decision.
C20_LambdaIffArrowAtDepthZero ==
    (/\ BodyDecided
     /\ frames[1].v.code[1].value = "{"
     /\ MatchingBrace(frames[1].v.code, 2, 0) # 0) =>
        LET code == frames[1].v.code
            close == MatchingBrace(code, 2, 0)
            arrow == \E k \in 2..(close - 1) :
                         code[k].value = "->" /\ DepthZero(code, k)
        IN  /\ Top(frames).fn =
                   IF arrow THEN "parse_lambda_literal" ELSE "parse_block"
            /\ tokens.cache \o tokens.iterator.items = code
            /\ tokens.markers = <<>>

----
(* Claims about the ways iterating the Lexer can end *)

\* C21: iterating the Lexer either yields tokens up to the end of the
\* source or raises LexerException; the mode stack is never empty when a
\* line break consults it, so no other kind of error ends the iteration.
C21_OnlyLexerException ==
    /\ lexer_pc \in {"running", "done", "LexerException"}
    /\ (last.op = "step" /\ last.c \in LineBreaks) => last.stack_mode # <<>>

----
(* SpecFile: Parser(code).parse() on whole sources made of object          *)
(* declarations, semicolons, line breaks and blanks, the way               *)
(* tests/test_parser_kotlin_file.py calls it.  `data` is the text of the   *)
(* source, from which the Lexer computes the position of its EOF.          *)

\* Lexer.eof: Position(self.lines[-1], self.columns[-1] + 1); the lists
\* have one entry per character, so [-1] of an empty source raises
lexer_eof ==
    LET past(position) ==
            [ret |-> Position(position.line, position.column + 1),
             exc |-> "none"]
    IN  IF Len(data) = 0
        THEN [ret |-> Position(0, 0), exc |-> "IndexError"]
        ELSE past(_compute_line_and_column(Len(data) - 1))

\* _get_declaration_type: inside simulate(), the modifiers, then the
\* keyword that follows them; classes, functions, properties and type
\* aliases are beyond the sources
_get_declaration_type(self) ==
    LET left(r) ==
            [self |-> simulate_exit(r.self, "return"), ret |-> r.ret,
             exc |-> r.exc]
        other(w) ==
            [self |-> w.self, ret |-> "None",
             exc |-> IF w.ret THEN "Beyond" ELSE "none"]
        object(w) ==
            IF w.ret
            THEN [self |-> w.self, ret |-> "ObjectDeclaration",
                  exc |-> "none"]
            ELSE other(_would_accept_either(
                           w.self, <<<<Str("fun")>>, <<Str("val")>>,
                                     <<Str("var")>>, <<Str("typealias")>>>>))
        class(w) ==
            IF w.ret THEN [self |-> w.self, ret |-> "None", exc |-> "Beyond"]
            ELSE object(_would_accept(w.self, <<Str("object"), NL,
                                                Class("Identifier")>>))
        parsed(modifiers) ==
            IF modifiers.exc # "none"
            THEN [self |-> modifiers.self, ret |-> "None",
                  exc |-> modifiers.exc]
            ELSE class(_would_accept_either(
                           modifiers.self,
                           <<<<Str("class")>>, <<Str("interface")>>,
                             <<Str("fun"), NL, Str("interface")>>>>))
    IN  left(parsed(parse_modifiers(simulate_enter(self), MODIFIERS)))

\* parse_declaration: the parse function of the declaration type, or
\* "expecting a declaration"
parse_declaration(self, f, got) ==
    LET typed(declaration_type) ==
            IF declaration_type.exc # "none" THEN DoRaised(declaration_type)
            ELSE IF declaration_type.ret = "None"
            THEN DoRaise(declaration_type.self)
            ELSE DoCall(declaration_type.self, "parse_object_declaration",
                        NoArgs, "called", NoArgs)
    IN  IF f.pc = "start" THEN typed(_get_declaration_type(self))
        ELSE DoReturn(self, got.ret)

\* parse_object_declaration; supertypes and a class body are beyond the
\* sources
parse_object_declaration(self, f, got) ==
    LET body(w, modifiers, ident) ==
            IF w.ret THEN Beyond(w.self)
            ELSE DoReturn(w.self,
                          node("ObjectDeclaration", ident.value, modifiers))
        supertypes(r, modifiers, ident) ==
            IF r.ret THEN Beyond(r.self)
            ELSE body(_would_accept(r.self, <<NL, Str("{")>>), modifiers,
                      ident)
        named(ident, modifiers) ==
            IF ident.exc # "none" THEN DoRaised(ident)
            ELSE supertypes(_try_accept(ident.self, <<NL, Str(":"), NL>>),
                            modifiers, ident.ret)
        accepted(token, modifiers) ==
            IF token.exc # "none" THEN DoRaised(token)
            ELSE named(accept(_consume_new_lines(token.self),
                              <<Class("Identifier")>>), modifiers)
        parsed(modifiers) ==
            IF modifiers.exc # "none" THEN DoRaised(modifiers)
            ELSE accepted(accept(modifiers.self, <<Str("object")>>),
                          modifiers.ret)
    IN  parsed(parse_modifiers(self, MODIFIERS))

\* parse_kotlin_file: a shebang line, file annotations, a package header
\* and imports are beyond the sources; then the loop
\* `while not self._try_accept(EOF)` over the declarations
parse_kotlin_file(self, f, got) ==
    LET at_end(r, declarations) ==
            IF r.ret
            THEN DoReturn(r.self, node("KotlinFile", "", declarations))
            ELSE DoCall(r.self, "parse_declaration",
                        [top_level_declaration |-> TRUE], "declaration",
                        [declarations |-> declarations])
        loop(me, declarations) ==
            at_end(_try_accept(me, <<Class("EOF")>>), declarations)
        imports(w) == IF w.ret THEN Beyond(w.self) ELSE loop(w.self, <<>>)
        package(w) ==
            IF w.ret THEN Beyond(w.self)
            ELSE imports(_would_accept(w.self, <<Str("import")>>))
        annotations(w) ==
            IF w.ret THEN Beyond(w.self)
            ELSE package(_would_accept(w.self, <<Str("package")>>))
        shebang(w) ==
            IF w.ret THEN Beyond(w.self)
            ELSE annotations(_would_accept(_consume_new_lines(w.self),
                                           <<NL, Class("At")>>))
    IN  IF f.pc = "start"
        THEN shebang(_would_accept(self, <<Class("ShebangLine")>>))
        ELSE loop(_consume_semis(self, TRUE),
                  Append(f.v.declarations, got.ret))

\* Parser.parse
parse(self, f, got) ==
    IF f.pc = "start"
    THEN DoCall(self, "parse_kotlin_file", NoArgs, "called", NoArgs)
    ELSE DoReturn(self, got.ret)

\* a source has up to MaxFile parts
MaxFile == 5

\* the parts of the sources, written with a blank between two parts: the
\* characters of each, and the token the lexer gives for it
FileParts ==
    [object |-> [text |-> <<"o", "b", "j", "e", "c", "t">>,
                 tokens |-> <<Token("HardKeyword", "object")>>],
     A |-> [text |-> <<"A">>, tokens |-> <<Token("Identifier", "A")>>],
     semicolon |-> [text |-> <<";">>, tokens |-> <<Token("Separator", ";")>>],
     new_line |-> [text |-> <<"\n">>, tokens |-> <<Token("NewLine", "\n")>>],
     blank |-> [text |-> <<" ">>, tokens |-> <<>>]]

\* " ".join(code), as characters
RECURSIVE FileText(_)
FileText(code) ==
    IF code = <<>> THEN <<>>
    ELSE IF Len(code) = 1 THEN FileParts[code[1]].text
    ELSE FileParts[code[1]].text \o <<" ">> \o FileText(Tail(code))

\* the tokens of a source
RECURSIVE FileSource(_)
FileSource(code) ==
    IF code = <<>> THEN <<>>
    ELSE FileParts[Head(code)].tokens \o FileSource(Tail(code))

\* TestParserKotlinFile.do_test: Parser(code), which asks the Lexer for its
\* EOF, then parse(); the frame keeps what came back
do_test_parse(self, f, got) ==
    LET constructed(eof) ==
            IF eof.exc # "none"
            THEN DoGoto(self, "done",
                        [code |-> f.v.code, eof |-> eof.ret,
                         result |-> NoNode, exc |-> eof.exc])
            ELSE DoCall(PeekableIterator(FileSource(f.v.code), EOF, FALSE),
                        "parse", NoArgs, "result",
                        [code |-> f.v.code, eof |-> eof.ret])
    IN  IF f.pc = "start" THEN constructed(lexer_eof)
        ELSE DoGoto(self, "done",
                    [code |-> f.v.code, eof |-> f.v.eof,
                     result |-> got.ret, exc |-> got.exc])

RunTestParse ==
    /\ Runs({"do_test_parse"})
    /\ \E t \in {do_test_parse(tokens, Top(frames), last)} : Step(t)

\* a parse function of files and declarations runs
RunFile ==
    /\ Runs({"parse", "parse_kotlin_file", "parse_declaration",
             "parse_object_declaration"})
    /\ LET self == tokens
           f == Top(frames)
       IN  \E t \in {CASE f.fn = "parse" -> parse(self, f, last)
                       [] f.fn = "parse_kotlin_file" ->
                              parse_kotlin_file(self, f, last)
                       [] f.fn = "parse_declaration" ->
                              parse_declaration(self, f, last)
                       [] f.fn = "parse_object_declaration" ->
                              parse_object_declaration(self, f, last)} :
               Step(t)

\* the source is there and nothing is constructed yet
InitFile ==
    /\ \E code \in SeqsUpTo(DOMAIN FileParts, MaxFile) :
           /\ data = FileText(code)
           /\ frames = <<[fn |-> "do_test_parse", pc |-> "start",
                          v |-> [code |-> code]]>>
    /\ tokens = PeekableIterator(<<>>, EOF, FALSE)
    /\ last = [ret |-> NoNode, exc |-> "none"]
    /\ i = 0
    /\ stack_mode = <<>>
    /\ yielded = <<>>
    /\ lexer_pc = "idle"

NextFile ==
    \/ RunTestParse
    \/ Propagate
    \/ RunFile

SpecFile == InitFile /\ [][NextFile]_vars

\* Parser(code).parse() has ended, in the constructor or after it
FileTested ==
    /\ Len(frames) = 1
    /\ Top(frames).fn = "do_test_parse"
    /\ Top(frames).pc = "done"

\* C22: Parser(source) can be constructed for every string, the empty one
\* included, and the EOF sentinel has a position for every source; parse()
\* of the empty source returns a KotlinFile with no declarations.
C22_EmptySourceParses ==
    FileTested =>
        /\ Top(frames).v.exc \in {"none", "ParserException"}
        /\ Top(frames).v.eof.line >= 1
        /\ data = <<>> =>
               /\ Top(frames).v.exc = "none"
               /\ Top(frames).v.result = node("KotlinFile", "", <<>>)

\* the source has a declaration that directly follows another one: the
\* name of an object and, next to it, the keyword of the next object
Adjacent(code) ==
    \E k \in 1..(Len(FileSource(code)) - 1) :
        /\ FileSource(code)[k].cls = "Identifier"
        /\ FileSource(code)[k + 1].value = "object"

\* C25: parse_kotlin_file accepts consecutive top-level declarations only
\* when at least one `;` or NewLine token separates them; a declaration
\* that directly follows another one is rejected with a ParserException.
C25_DeclarationsNeedSemis ==
    (FileTested /\ Adjacent(Top(frames).v.code)) =>
        Top(frames).v.exc = "ParserException"

----
(* Claims about _try_accept *)

\* C23: whenever _try_accept returns False the cursor is where it was
\* before the call, so that a call that consumed a token returns True; for
\* every sequence of acceptables, those made of NL markers only included.
C23_TryAcceptFalseKeepsCursor ==
    (last.op = "_try_accept" /\ last.ret = FALSE)
        => /\ last.exc = "none"
           /\ TokensOf(tokens) = TokensOf(last.before)

----
(* SpecStatement: parse_statement and parse_assignment called on the same  *)
(* source `a OP b OP c ...`, with or without its last operand, the way     *)
(* tests/test_parser_statement.py and tests/test_parser_assignment.py call *)
(* them.                                                                   *)

\* the `=` and the assignmentAndOperator values
ASSIGNMENT_OPERATORS == {"=", "+=", "-=", "*=", "/=", "%="}

\* parse_statement: annotations, labels, declarations and loops are beyond
\* the sources; then the expression and, when an assignment operator
\* follows it, the value
parse_statement(self, f, got) ==
    LET accepted(token, statement, token_value) ==
            IF token.exc # "none" THEN DoRaised(token)
            ELSE DoCall(token.self, "parse_expression", NoArgs, "value",
                        [statement |-> statement, operator |-> token_value])
        peeked(p, statement) ==
            IF p.ret.value \in ASSIGNMENT_OPERATORS
            THEN accepted(accept(p.self, <<Class("Operator"), NL>>),
                          statement, p.ret.value)
            ELSE DoReturn(p.self, node("Statement", "", <<statement>>))
        loop(w) ==
            IF w.ret THEN Beyond(w.self)
            ELSE DoCall(w.self, "parse_expression", NoArgs, "statement",
                        NoArgs)
        declaration(declaration_type) ==
            IF declaration_type.exc # "none" THEN DoRaised(declaration_type)
            ELSE IF declaration_type.ret # "None"
            THEN Beyond(declaration_type.self)
            ELSE loop(_would_accept_either(
                          declaration_type.self,
                          <<<<Str("for")>>, <<Str("while")>>, <<Str("do")>>>>))
        labels(w) ==
            IF w.ret THEN Beyond(w.self)
            ELSE declaration(_get_declaration_type(w.self))
        annotations(w) ==
            IF w.ret THEN Beyond(w.self)
            ELSE labels(_would_accept(w.self, <<Class("Identifier"),
                                                Class("At")>>))
    IN  CASE f.pc = "start" ->
                 annotations(_would_accept(self, <<NL, Class("At")>>))
          [] f.pc = "statement" -> peeked(peek(self, 0), got.ret)
          [] f.pc = "value" ->
                 DoReturn(self,
                          node("Statement", "",
                               <<node("Assignment", f.v.operator,
                                      <<f.v.statement, got.ret>>)>>))

\* parse_parenthesized_directly_assignable_expression; what follows `(` is
\* beyond the sources
parse_parenthesized_directly_assignable_expression(self, f, got) ==
    LET accepted(token) ==
            IF token.exc # "none" THEN DoRaised(token)
            ELSE Beyond(token.self)
    IN  accepted(accept(self, <<Str("("), NL>>))

\* the classes of `assignable_suffixes`
assignable_suffixes == {"TypeArguments", "IndexingSuffix", "NavigationSuffix"}

\* parse_directly_assignable_expression: the parenthesized form, then a
\* postfix expression that ends in an assignable suffix, tried inside
\* `with self.tokens`, then a simple identifier
parse_directly_assignable_expression(self, f, got) ==
    LET named(ident) ==
            IF ident.exc # "none" THEN DoRaised(ident)
            ELSE DoReturn(ident.self,
                          node("DirectlyAssignableExpression", "",
                               <<node("SimpleIdentifier", ident.ret.value,
                                      <<>>)>>))
        ident(me) == named(accept(me, <<Class("Identifier")>>))
        has_suffix(postfix) ==
            /\ postfix.class = "PostfixUnaryExpression"
            /\ postfix.kids[Len(postfix.kids)].class \in assignable_suffixes
    IN  CASE f.pc = "start" ->
                 DoCall(self, "_try_parse",
                        [parse_funcs |->
                            <<"parse_parenthesized_directly_assignable_expression">>],
                        "parenthesized", NoArgs)
          [] f.pc = "parenthesized" /\ got.exc # "none" -> DoRaised(
                 [self |-> self, exc |-> got.exc])
          [] f.pc = "parenthesized" /\ got.exc = "none" ->
                 IF got.ret # NoNode THEN DoReturn(self, got.ret)
                 ELSE DoCall(__enter__(self), "_try_parse",
                             [parse_funcs |->
                                 <<"parse_postfix_unary_expression">>],
                             "postfix", NoArgs)
          [] f.pc = "postfix" ->
                 IF got.exc \notin {"none", "ParserException"}
                 THEN DoRaised([self |-> __exit__(self, TRUE),
                                exc |-> got.exc])
                 ELSE IF got.exc = "none" /\ has_suffix(got.ret)
                 THEN DoReturn(__exit__(self, FALSE),
                               node("DirectlyAssignableExpression", "",
                                    <<got.ret>>))
                 ELSE ident(__exit__(self, TRUE))

\* parse_assignable_expression; the parenthesized form is beyond the
\* sources
parse_assignable_expression(self, f, got) ==
    LET tested(w) ==
            IF w.ret THEN Beyond(w.self)
            ELSE DoCall(w.self, "parse_prefix_unary_expression", NoArgs,
                        "called", NoArgs)
    IN  IF f.pc = "start" THEN tested(_would_accept(self, <<Str("(")>>))
        ELSE DoReturn(self, got.ret)

\* parse_assignment: a directly assignable expression and `=`, inside
\* `with self.tokens` and `try`; failing that, an assignable expression
\* that one of the compound operators follows, inside another; then the
\* value
parse_assignment(self, f, got) ==
    LET operators ==
            <<<<Str("+=")>>, <<Str("-=")>>, <<Str("*=")>>, <<Str("/=")>>,
              <<Str("%=")>>>>
        value(me, assignable, operator) ==
            DoCall(me, "parse_expression", NoArgs, "value",
                   [assignable |-> assignable, operator |-> operator])
        second(me) ==
            DoCall(__enter__(me), "parse_assignable_expression", NoArgs,
                   "assignable", NoArgs)
        equals(token, directly_assignable) ==
            IF token.exc = "none"
            THEN value(__exit__(token.self, FALSE), directly_assignable, "=")
            ELSE IF token.exc = "ParserException"
            THEN second(__exit__(token.self, TRUE))
            ELSE DoRaised([self |-> __exit__(token.self, TRUE),
                           exc |-> token.exc])
        compound(token, assignable) ==
            IF token.exc # "none" THEN DoRaised(token)
            ELSE value(token.self, assignable, token.ret.value)
        followed(w, assignable) ==
            IF w.ret
            THEN compound(accept(__exit__(w.self, FALSE),
                                 <<Class("Operator"), NL>>), assignable)
            ELSE DoRaise(__exit__(w.self, TRUE))
    IN  CASE f.pc = "start" ->
                 DoCall(__enter__(self),
                        "parse_directly_assignable_expression", NoArgs,
                        "directly_assignable", NoArgs)
          [] f.pc = "directly_assignable" ->
                 IF got.exc = "none"
                 THEN equals(accept(self, <<Str("="), NL>>), got.ret)
                 ELSE IF got.exc = "ParserException"
                 THEN second(__exit__(self, TRUE))
                 ELSE DoRaised([self |-> __exit__(self, TRUE),
                                exc |-> got.exc])
          [] f.pc = "assignable" ->
                 IF got.exc = "none"
                 THEN followed(_would_accept_either(self, operators), got.ret)
                 ELSE IF got.exc = "ParserException"
                 THEN DoRaise(__exit__(self, TRUE))
                 ELSE DoRaised([self |-> __exit__(self, TRUE),
                                exc |-> got.exc])
          [] f.pc = "value" ->
                 IF got.exc # "none"
                 THEN DoRaised([self |-> self, exc |-> got.exc])
                 ELSE DoReturn(self,
                               node("Assignment", f.v.operator,
                                    <<f.v.assignable, got.ret>>))

\* a source has up to MaxStatement operators
MaxStatement == 3

\* the operators of the sources: a binary operator, `=`, a compound
\* assignment
StatementOperators == {"+", "=", "+="}

\* the tokens of `a code[1] b code[2] c ...`, which ends in an operator
\* when it is cut
StatementSource(code, cut) ==
    IF cut THEN Front(ExprSource(code)) ELSE ExprSource(code)

\* do_test("parse_statement", code) and, on a Parser(code) of its own,
\* do_test("parse_assignment", code); the frame keeps what came back from
\* both
do_test_statement_and_assignment(self, f, got) ==
    CASE f.pc = "start" ->
             DoCall(self, "parse_statement", NoArgs, "statement", f.v)
      [] f.pc = "statement" ->
             DoCall(PeekableIterator(StatementSource(f.v.code, f.v.cut),
                                     EOF, FALSE),
                    "parse_assignment", NoArgs, "assignment",
                    [code |-> f.v.code, cut |-> f.v.cut,
                     statement |-> got.ret, statement_exc |-> got.exc])
      [] f.pc = "assignment" ->
             DoGoto(self, "done",
                    [code |-> f.v.code, cut |-> f.v.cut,
                     statement |-> f.v.statement,
                     statement_exc |-> f.v.statement_exc,
                     assignment |-> got.ret, assignment_exc |-> got.exc])

RunTestBoth ==
    /\ Runs({"do_test_statement_and_assignment"})
    /\ \E t \in {do_test_statement_and_assignment(tokens, Top(frames),
                                                   last)} : Step(t)

\* a parse function of statements and assignments runs
RunStatement ==
    /\ Runs({"parse_statement", "parse_assignment",
             "parse_directly_assignable_expression",
             "parse_parenthesized_directly_assignable_expression",
             "parse_assignable_expression"})
    /\ LET self == tokens
           f == Top(frames)
       IN  \E t \in {CASE f.fn = "parse_statement" ->
                              parse_statement(self, f, last)
                       [] f.fn = "parse_assignment" ->
                              parse_assignment(self, f, last)
                       [] f.fn = "parse_directly_assignable_expression" ->
                              parse_directly_assignable_expression(self, f,
                                                                   last)
                       [] f.fn =
                          "parse_parenthesized_directly_assignable_expression"
                              -> parse_parenthesized_directly_assignable_expression(
                                     self, f, last)
                       [] f.fn = "parse_assignable_expression" ->
                              parse_assignable_expression(self, f, last)} :
               Step(t)

InitStatement ==
    /\ \E code \in SeqsUpTo(StatementOperators, MaxStatement),
          cut \in BOOLEAN :
           /\ cut => code # <<>>
           /\ tokens = PeekableIterator(StatementSource(code, cut), EOF,
                                        FALSE)
           /\ frames = <<[fn |-> "do_test_statement_and_assignment",
                          pc |-> "start",
                          v |-> [code |-> code, cut |-> cut]]>>
    /\ last = [ret |-> NoNode, exc |-> "none"]
    /\ IdleLexer

NextStatement ==
    \/ RunTestBoth
    \/ RunTryParse
    \/ Propagate
    \/ RunType
    \/ RunBinary
    \/ RunUnary
    \/ RunStatement

SpecStatement == InitStatement /\ [][NextStatement]_vars

\* both parse functions have ended on the source
StatementTested ==
    /\ Len(frames) = 1
    /\ Top(frames).fn = "do_test_statement_and_assignment"
    /\ Top(frames).pc = "done"

\* the statement that parse_statement returned is an Assignment
IsAssignment(v) ==
    /\ v.statement_exc = "none"
    /\ v.statement.kids[1].class = "Assignment"

\* C24: parse_statement gives an Assignment with `=` only when the left
\* side is a directly assignable expression, here a simple identifier, and
\* with a compound operator only when it is an assignable expression, here
\* a prefix unary expression or what it is made of; so parse_statement
\* gives an Assignment exactly when parse_assignment accepts the source.
C24_StatementAssignsLikeAssignment ==
    StatementTested =>
        LET v == Top(frames).v
        IN  /\ IsAssignment(v) <=> v.assignment_exc = "none"
            /\ IsAssignment(v) =>
                   v.statement.kids[1].kids[1].class
                       \in {"SimpleIdentifier", "PrefixUnaryExpression"}

----
(* Claims about the assertions of parse_property_declaration *)

\* C26: for any token sequence parse_property_declaration returns a node
\* or raises ParserException; its assertions, that a receiver was parsed
\* and that a receiver not followed by `.` is a parenthesized type, never
\* fail.
C26_AssertionsNeverFail ==
    PropertyTested => Top(frames).v.exc # "AssertionError"

----
(* SpecLiteral: the Lexer reads sources made of integer literals, their    *)
(* suffixes, letters and blanks.                                           *)

\* the characters of the sources: digits, the hex and binary markers, the
\* suffixes, a blank
LiteralChars == {"0", "1", "x", "b", "u", "L", " "}

InitLiteral ==
    /\ data \in SeqsUpTo(LiteralChars, MaxLiteral)
    /\ i = 0
    /\ stack_mode = <<DEFAULT>>
    /\ yielded = <<>>
    /\ lexer_pc = "running"
    /\ tokens = <<>>
    /\ frames = <<>>
    /\ last = [op |-> "init", c |-> "None", i |-> 0, stack_mode |-> <<>>,
               yielded |-> <<>>]

SpecLiteral == InitLiteral /\ [][NextLexer]_vars

----
(* Claims about the class of an integer literal *)

IntegerClasses ==
    {"IntegerLiteral", "HexLiteral", "BinLiteral", "LongLiteral",
     "UnsignedLiteral"}

\* the class that the text of an integer literal stands for
ClassOfText(value) ==
    LET n == Len(value)
        unsigned == \/ value[n] \in {"u", "U"}
                    \/ n >= 2 /\ value[n] = "L" /\ value[n - 1] \in {"u", "U"}
    IN  IF unsigned THEN "UnsignedLiteral"
        ELSE IF value[n] = "L" THEN "LongLiteral"
        ELSE IF n >= 2 /\ value[1] = "0" /\ value[2] \in {"x", "X"}
        THEN "HexLiteral"
        ELSE IF n >= 2 /\ value[1] = "0" /\ value[2] \in {"b", "B"}
        THEN "BinLiteral"
        ELSE "IntegerLiteral"

\* C27: the class of every decimal, hex or binary integer literal token
\* follows from the text of the token alone: UnsignedLiteral exactly when
\* the text ends in `u`/`U` or in `u`/`U` and `L`, LongLiteral exactly when
\* it ends in `L` without `u`/`U`, otherwise the class of its prefix,
\* whatever precedes or follows the literal in the source.
C27_ClassFromOwnText ==
    \A k \in 1..Len(yielded) :
        yielded[k].cls \in IntegerClasses =>
            yielded[k].cls = ClassOfText(yielded[k].value)

----
(* SpecString: the Lexer reads sources made of quotes, interpolation       *)
(* openers, braces and a letter.                                           *)

\* the parts of the sources, each a sequence of characters
StringParts == {<<"\"">>, <<"$", "{">>, <<"{">>, <<"}">>, <<"a">>}

\* "".join(parts), as characters
RECURSIVE Concat(_)
Concat(parts) ==
    IF parts = <<>> THEN <<>> ELSE Head(parts) \o Concat(Tail(parts))

InitString ==
    /\ data \in {Concat(parts) : parts \in SeqsUpTo(StringParts, MaxString)}
    /\ i = 0
    /\ stack_mode = <<DEFAULT>>
    /\ yielded = <<>>
    /\ lexer_pc = "running"
    /\ tokens = <<>>
    /\ frames = <<>>
    /\ last = [op |-> "init", c |-> "None", i |-> 0, stack_mode |-> <<>>,
               yielded |-> <<>>]

SpecString == InitString /\ [][NextLexer]_vars

----
(* Claims about interpolations in string literals *)

\* Where a line string template that opens at index k closes, where its
\* text goes on from index k, and where the interpolated code that goes on
\* from index k meets its closing brace; each is a set with at most one
\* index, the one after the closing character.  The code is made of
\* letters, brace pairs around code and nested templates.
RECURSIVE TemplateEnds(_)
RECURSIVE TextEnds(_)
RECURSIVE CodeEnds(_)
TemplateEnds(k) == IF CharAt(k) = "\"" THEN TextEnds(k + 1) ELSE {}

TextEnds(k) ==
    IF k >= Len(data) THEN {}
    ELSE IF CharAt(k) = "\"" THEN {k + 1}
    ELSE IF CharAt(k) = "$" /\ CharAt(k + 1) = "{"
    THEN UNION {TextEnds(end) : end \in CodeEnds(k + 2)}
    ELSE TextEnds(k + 1)

CodeEnds(k) ==
    IF k >= Len(data) THEN {}
    ELSE IF CharAt(k) = "}" THEN {k + 1}
    ELSE IF CharAt(k) = "{"
    THEN UNION {CodeEnds(end) : end \in CodeEnds(k + 1)}
    ELSE IF CharAt(k) = "\""
    THEN UNION {CodeEnds(end) : end \in TemplateEnds(k)}
    ELSE IF CharAt(k) = "a" THEN CodeEnds(k + 1)
    ELSE {}

\* the source is one line string template with balanced code in its
\* interpolations, and holds no `"""`
IsTemplate ==
    /\ TemplateEnds(0) = {Len(data)}
    /\ \A k \in 0..(Len(data) - 1) : quotes(k) < 3

\* C28: in a string literal a `${` opens an interpolation that ends only at
\* the `}` balancing its own braces; a `}` or `"` inside the interpolated
\* code, also inside a literal nested in that code, ends neither the
\* interpolation nor the enclosing literal, so a template whose
\* interpolations hold balanced code is emitted as exactly one string token.
C28_TemplateIsOneToken ==
    (lexer_pc # "running" /\ IsTemplate) =>
        /\ lexer_pc = "done"
        /\ Len(yielded) = 1
        /\ yielded[1].cls = "LineStringLiteral"
        /\ yielded[1].value = data

----
(* SpecChar: the Lexer reads sources made of single quotes, backslashes,   *)
(* letters and the four hex digits of a unichar escape.                    *)

\* the parts of the sources, each a sequence of characters
CharParts ==
    {<<"'">>, <<"\\">>, <<"a">>, <<"n">>, <<"u">>, <<"u", "a", "a", "a", "a">>}

InitChar ==
    /\ data \in {Concat(parts) : parts \in SeqsUpTo(CharParts, MaxChar)}
    /\ i = 0
    /\ stack_mode = <<DEFAULT>>
    /\ yielded = <<>>
    /\ lexer_pc = "running"
    /\ tokens = <<>>
    /\ frames = <<>>
    /\ last = [op |-> "init", c |-> "None", i |-> 0, stack_mode |-> <<>>,
               yielded |-> <<>>]

SpecChar == InitChar /\ [][NextLexer]_vars

----
(* Claims about character literals *)

\* the characters that may follow the backslash of an escape sequence
EscapedChars == {"t", "b", "r", "n", "'", "\"", "\\", "$"}

\* value is `'`, one character or one escape sequence, and `'`
IsCharacterLiteral(value) ==
    /\ Len(value) >= 3
    /\ value[1] = "'"
    /\ value[Len(value)] = "'"
    /\ \/ Len(value) = 3 /\ value[2] \notin {"'", "\\"}
       \/ Len(value) = 4 /\ value[2] = "\\" /\ value[3] \in EscapedChars
       \/ /\ Len(value) = 8
          /\ value[2] = "\\"
          /\ value[3] = "u"
          /\ \A k \in 4..7 : value[k] \in hexdigits

\* a character literal starts at index k of the source
LiteralAt(k) ==
    \E n \in {3, 4, 8} :
        k + n <= Len(data) /\ IsCharacterLiteral(SubSeq(data, k + 1, k + n))

----
(* SpecTwice: two iterators are obtained from one Lexer, and next() is     *)
(* called on them in any order.  `self.i` belongs to the Lexer, so `i` is  *)
(* shared; `stack_mode` is a local of __iter__, so each generator has its  *)
(* own, like its own position in the loop and its own output.  The         *)
(* generator that is running has its locals in stack_mode, yielded and     *)
(* lexer_pc, the other one has them in frames[1].                          *)

\* the locals of a generator of __iter__ that has not started
Generator(modes, output, pc) ==
    [stack_mode |-> modes, yielded |-> output, lexer_pc |-> pc]

\* the running generator is not inside a next() call: it has not started,
\* it has just yielded a token, or it has ended
Suspended ==
    \/ last.op \in {"init", "next"}
    \/ lexer_pc # "running"
    \/ last.op = "step" /\ yielded # last.yielded

\* the caller turns to the other iterator and calls next() on it
NextOther ==
    /\ frames # <<>>
    /\ Suspended
    /\ frames' = <<Generator(stack_mode, yielded, lexer_pc)>>
    /\ stack_mode' = frames[1].stack_mode
    /\ yielded' = frames[1].yielded
    /\ lexer_pc' = frames[1].lexer_pc
    /\ last' = [op |-> "next", c |-> "None", i |-> i,
                stack_mode |-> frames[1].stack_mode,
                yielded |-> frames[1].yielded]
    /\ UNCHANGED <<tokens, data, i>>

InitTwice ==
    /\ data \in SeqsUpTo(Chars, MaxTwice)
    /\ i = 0
    /\ stack_mode = <<DEFAULT>>
    /\ yielded = <<>>
    /\ lexer_pc = "running"
    /\ tokens = <<>>
    /\ frames = <<Generator(<<DEFAULT>>, <<>>, "running")>>
    /\ last = [op |-> "init", c |-> "None", i |-> 0, stack_mode |-> <<>>,
               yielded |-> <<>>]

NextTwice == LexStep \/ LexStop \/ NextOther

SpecTwice == InitTwice /\ [][NextTwice]_vars

----
(* Claims about iterating one Lexer more than once *)

\* both iterations have ended
BothEnded == lexer_pc # "running" /\ frames[1].lexer_pc # "running"

\* C30: iterating the same Lexer more than once is repeatable: every
\* iteration yields the full token sequence of the source from the first
\* token on, and two iterators of one Lexer do not affect each other's
\* position or output when their next() calls are interleaved; so two
\* iterations that have ended have ended alike, with the same tokens.
C30_IterationsAreRepeatable ==
    BothEnded =>
        /\ yielded = frames[1].yielded
        /\ lexer_pc = frames[1].lexer_pc

====
